---- MODULE Spec2Model ----
(***************************************************************************)
(* The file-descriptor lower layer of gensio (lib/gensio_ll_fd.c) as a     *)
(* state machine.  struct fd_ll is the record fdll, the OS-Funcs' view of  *)
(* the handles (registered handlers, armed watchers, pending cleared       *)
(* reports, the close timer, the deferred runner) is the record os, and    *)
(* the up-calls of the OS-Funcs come in two strands:                       *)
(*   ev  the handle's events: fd_read_ready, fd_write_ready,               *)
(*       fd_except_ready, fd_cleared and the close timer fd_close_timeout  *)
(*   df  the deferred runner: fd_deferred_op                               *)
(* Under Spec one event-loop thread runs them, a handler at a time; under  *)
(* SpecThreads each strand has a thread of its own.                        *)
(* A handler is cut into steps where it gives up the lock: a step is the   *)
(* code from one fd_lock (or callback return) to the next fd_unlock (or    *)
(* callback invocation).  The upper layer calls the LL functions at any    *)
(* time the lock is free, from another thread or from inside a callback.   *)
(*                                                                         *)
(* The out-of-band send queue of the tools' ioinfo (struct ioinfo and its  *)
(* io_event handler) is the record ioinfo: one endpoint with its queue of  *)
(* OOB records, the writes issued on its gensio, and the READ events of    *)
(* the endpoint on the other side, which forward what they read to it.     *)
(* SpecOob runs it.                                                        *)
(*                                                                         *)
(* The mDNS front end (lib/gensio_mdns.c) is the record mdns: struct       *)
(* gensio_mdns with its watches, the queue of callbacks its runner works   *)
(* off, and what the Avahi client reports to it.  SpecMdns runs it.        *)
(*                                                                         *)
(* The Avahi poll bridge (lib/avahi_watcher.c) is the record avahi: struct *)
(* gensio_avahi_userdata with one AvahiTimeout and one AvahiWatch and what *)
(* the OS-Funcs hold for them.  SpecAvahi runs it.                         *)
(***************************************************************************)
EXTENDS Integers, Sequences, FiniteSets, TLC

\* ---------------------------------------------------------------- bounds
MaxOpenReq == 1    \* fd_open calls in one run
MaxBytes == 2      \* bytes the OS delivers in one run
MaxPoll == 1       \* check_close(DONE) answers of GE_INPROGRESS in one run

\* fd_open calls in one run when a done callback opens the layer once more.
MaxOpens == MaxOpenReq + 1

\* fd_close calls in one run: one for each cycle and one to be refused.
MaxCloseReq == MaxOpenReq + 1
\* Handles handed out in one run: the one given at allocation or by a
\* retry_open, and one for each fd_open.
MaxFd == MaxOpenReq + 1

ReadSize == 2      \* max_read_size given to fd_gensio_ll_alloc

MaxOob == 2        \* OOB records handed to ioinfo_sendoob in one run
MaxOobLen == 2     \* length of an OOB record
MaxNormal == 2     \* bytes the other side's READ events forward in one run

\* A NULL struct ioinfo_oob pointer.
NoOob == 0

OobIds == 1..MaxOob

\* gensio_free_mdns calls, and gensio_mdns_remove_watch calls on the watch,
\* in one run: the first and those that come after it.
MaxFreeReq == 2

\* The mdns is followed with one watch added to it.
Watches == {1}

\* The times Avahi asks a timeout for: 1..MaxTv.
MaxTv == 2

NoFd == -1

FDs == 1..MaxFd
FdStates == {"FD_CLOSED", "FD_IN_OPEN", "FD_OPEN", "FD_IN_CLOSE"}
Threads == {"ev", "df"}

\* The labels at which a thread is inside a READ up-call.
InRead == {"cb", "cb_err"}

VARIABLES
    mt,     \* TRUE when the two strands run on threads of their own
    fdll,   \* struct fd_ll
    os,     \* the OS-Funcs: handlers, watchers, cleared reports, timer, runner
    lock,   \* holder of fdll->lock: "none", a thread, or "user"
    pc,     \* where each event thread is in its handler
    h,      \* history: what the OS handed out and what the upper layer saw
    ioinfo, \* struct ioinfo of one endpoint, its OOB records and its wire
    mdns,   \* struct gensio_mdns, its watches and its callback queue
    avahi   \* struct gensio_avahi_userdata with a timeout and a watch

vars == <<mt, fdll, os, lock, pc, h, ioinfo, mdns, avahi>>

\* The state a step works on, and the label the thread stops at.
Ctx == [ll |-> fdll, os |-> os, lock |-> lock, h |-> h, nxt |-> "idle"]

\* A use after free ends the run: what follows it is undefined.
Commit(t, c) ==
    /\ ~h.uaf
    /\ UNCHANGED <<mt, ioinfo, mdns, avahi>>
    /\ fdll' = c.ll
    /\ os' = c.os
    /\ lock' = c.lock
    /\ h' = c.h
    /\ pc' = [pc EXCEPT ![t] = c.nxt]

CommitUser(c) ==
    /\ ~h.uaf
    /\ UNCHANGED <<mt, ioinfo, mdns, avahi>>
    /\ fdll' = c.ll
    /\ os' = c.os
    /\ lock' = c.lock
    /\ h' = c.h
    /\ UNCHANGED pc

\* ------------------------------------------------------- locks, references
\* A touch of the structure after fd_finish_free is a use after free.
fd_lock(c, t) ==
    [c EXCEPT !.lock = t, !.h.uaf = c.h.uaf \/ c.ll.freed]

fd_unlock(c) == [c EXCEPT !.lock = "none"]

fd_ref(c) == [c EXCEPT !.ll.refcount = c.ll.refcount + 1]

fd_lock_and_ref(c, t) == fd_ref(fd_lock(c, t))

fd_finish_free(c) ==
    [c EXCEPT !.ll.freed = TRUE,
              !.h.freeCount = IF c.h.freeCount < 2 THEN c.h.freeCount + 1 ELSE 2,
              !.h.freeLocked = c.h.freeLocked \/ c.lock # "none"]

\* assert(refcount > 0); count = --refcount; unlock; free at zero.
fd_deref_and_unlock(c) ==
    LET under == c.ll.refcount = 0
        count == IF under THEN 0 ELSE c.ll.refcount - 1
        c1 == [c EXCEPT !.ll.refcount = count,
                        !.h.underflow = c.h.underflow \/ under]
        c2 == fd_unlock(c1)
    IN  IF count = 0 /\ ~under THEN fd_finish_free(c2) ELSE c2

\* ------------------------------------------------------------ the OS-Funcs
\* A watcher toggle acts on a handle that has handlers, and on no other.
set_read_handler(c, v) ==
    IF c.ll.fd \in c.os.handlers
    THEN [c EXCEPT !.os.rd = IF v THEN c.os.rd \cup {c.ll.fd}
                                  ELSE c.os.rd \ {c.ll.fd}]
    ELSE c

set_write_handler(c, v) ==
    IF c.ll.fd \in c.os.handlers
    THEN [c EXCEPT !.os.wr = IF v THEN c.os.wr \cup {c.ll.fd}
                                  ELSE c.os.wr \ {c.ll.fd}]
    ELSE c

set_except_handler(c, v) ==
    IF c.ll.fd \in c.os.handlers
    THEN [c EXCEPT !.os.ex = IF v THEN c.os.ex \cup {c.ll.fd}
                                  ELSE c.os.ex \ {c.ll.fd}]
    ELSE c

clear_fd_handlers_norpt(c) ==
    [c EXCEPT !.os.handlers = c.os.handlers \ {c.ll.fd},
              !.os.rd = c.os.rd \ {c.ll.fd},
              !.os.wr = c.os.wr \ {c.ll.fd},
              !.os.ex = c.os.ex \ {c.ll.fd}]

\* The cleared up-call is owed once the handlers of a registered handle go;
\* for a handle that has no handlers there is nothing to report.
clear_fd_handlers(c) ==
    IF c.ll.fd \in c.os.handlers
    THEN [clear_fd_handlers_norpt(c) EXCEPT !.os.clr = c.os.clr \cup {c.ll.fd}]
    ELSE [c EXCEPT !.h.unowed = TRUE]

\* set_fd_handlers fails for want of memory (ok = FALSE) -> GE_NOMEM.
fd_setup_handlers(c, ok) ==
    IF ok /\ c.ll.fd \in FDs
    THEN [c EXCEPT !.os.handlers = c.os.handlers \cup {c.ll.fd}]
    ELSE c

\* close(fdll->fd); closing -1 closes nothing.
os_close(c) ==
    IF c.ll.fd \in FDs
    THEN [c EXCEPT !.h.closes[c.ll.fd] =
                      IF c.h.closes[c.ll.fd] < 2 THEN c.h.closes[c.ll.fd] + 1 ELSE 2]
    ELSE c

\* The driver's sub_open / retry_open hands out the next handle.
new_fd(c) ==
    [c EXCEPT !.h.nfd = c.h.nfd + 1, !.ll.fd = c.h.nfd + 1]

\* ------------------------------------------------------------- history
\* An open that answered GE_INPROGRESS and whose open_done is still owed.
OdPending(hh) == \E i \in hh.openIP : hh.odCalls[i] = 0

\* An accepted close whose close_done is still owed.
CdPending(hh) == \E i \in hh.closeOK : hh.cdCalls[i] = 0

\* ---------------------------------------------------------------- Init
\* fd_gensio_ll_alloc: with fd = -1 the layer starts CLOSED, with a handle it
\* starts OPEN with its handlers set up.
InitLL(fd, wo, cc, ro) ==
    [refcount |-> 1, freed |-> FALSE, fd |-> fd,
     state |-> IF fd = NoFd THEN "FD_CLOSED" ELSE "FD_OPEN",
     read_enabled |-> FALSE, write_enabled |-> FALSE, write_only |-> wo,
     check_close |-> cc, retry_open |-> ro,
     open_done |-> 0, open_err |-> "OK", close_done |-> 0,
     read_data |-> [i \in 1..ReadSize |-> 0],
     read_data_len |-> 0, read_data_pos |-> 0,
     in_read |-> FALSE, deferred_op_pending |-> FALSE,
     deferred_read |-> FALSE, deferred_close |-> FALSE]

InitOS(fd) ==
    [handlers |-> IF fd = NoFd THEN {} ELSE {fd},
     rd |-> {}, wr |-> {}, ex |-> {}, clr |-> {},
     timer |-> FALSE, runner |-> FALSE]

InitH(fd) ==
    [nfd |-> IF fd = NoFd THEN 0 ELSE 1,
     closes |-> [f \in FDs |-> 0],
     stream |-> <<>>, consumed |-> <<>>,
     nopen |-> 0, openIP |-> {}, odCalls |-> [i \in 1..MaxOpens |-> 0],
     odErr |-> "none",
     nclose |-> 0, closeOK |-> {}, cdCalls |-> [i \in 1..MaxCloseReq |-> 0],
     everEnabled |-> FALSE, cdSinceOpen |-> FALSE,
     polls |-> 0, ccStart |-> FALSE,
     unowed |-> FALSE, retried |-> FALSE,
     userRef |-> TRUE, disabled |-> FALSE,
     freeCount |-> 0, freeLocked |-> FALSE, underflow |-> FALSE, uaf |-> FALSE]

\* No ioinfo is allocated while the FD layer is looked at on its own.
NoIoinfo == <<>>

\* Nor is a struct gensio_mdns.
NoMdns == <<>>

\* alloc_ioinfo: all of struct ioinfo zeroed, no gensio attached yet.  The
\* endpoint on the other side is ready and has its read enabled.
InitIoinfo ==
    [ready |-> FALSE, shut |-> FALSE,
     wr_enabled |-> FALSE, other_rd_enabled |-> TRUE,
     oob_head |-> NoOob, oob_tail |-> NoOob,
     next |-> [r \in OobIds |-> NoOob],
     buf |-> [r \in OobIds |-> 0],
     len |-> [r \in OobIds |-> 0],
     send_done |-> [r \in OobIds |-> FALSE],
     oob |-> NoOob, at |-> "idle",
     nsent |-> 0, origlen |-> [r \in OobIds |-> 0],
     wire |-> <<>>, done |-> <<>>, nnormal |-> 0, taken |-> 0]

\* The drivers: a plain one, and one with check_close and retry_open.
InitLayer ==
    \E fd \in {NoFd, 1}, wo \in BOOLEAN, drv \in BOOLEAN :
        /\ ioinfo = NoIoinfo
        /\ mdns = NoMdns
        /\ avahi = <<>>
        /\ fdll = InitLL(fd, wo, drv, drv)
        /\ os = InitOS(fd)
        /\ lock = "none"
        /\ pc = [t \in Threads |-> "idle"]
        /\ h = InitH(fd)

Init == mt = FALSE /\ InitLayer

InitThreads == mt = TRUE /\ InitLayer

\* Strand t may start a handler: it runs none, and on a single event-loop
\* thread no other strand runs one either.
CanStart(t) ==
    /\ pc[t] = "idle"
    /\ mt \/ \A u \in Threads : pc[u] = "idle"

\* ------------------------------------------------------------ up-calls
\* Byte k of what the OS delivers, read on handle fd.
Byte(fd, k) == 10 * fd + k

\* read_data[i], an index past the buffer reading what lies behind it.
Cell(ll, i) == IF i \in 1..ReadSize THEN ll.read_data[i] ELSE -1

\* The bytes a READ up-call offers: read_data + read_data_pos, read_data_len.
Offered(ll) ==
    [i \in 1..ll.read_data_len |-> Cell(ll, ll.read_data_pos + i)]

\* open_done has returned.
open_done_return(c) == [c EXCEPT !.h.odErr = "none"]

\* cb(cb_data, GENSIO_LL_CB_READ, err, ...) is invoked.
call_read(c, err) ==
    [c EXCEPT !.nxt = IF err # "OK" THEN "cb_err" ELSE "cb"]

\* open_done(cb_data, err, open_data) of open request id is invoked; odErr
\* is the err it is given, for as long as it runs.
call_open_done(c, id, err, lbl) ==
    [c EXCEPT !.h.odCalls[id] = IF c.h.odCalls[id] < 2 THEN c.h.odCalls[id] + 1 ELSE 2,
              !.h.odErr = err,
              !.nxt = lbl]

\* close_done(cb_data, close_data) of close request id is invoked.
call_close_done(c, id) ==
    [c EXCEPT !.h.cdCalls[id] = IF c.h.cdCalls[id] < 2 THEN c.h.cdCalls[id] + 1 ELSE 2,
              !.h.cdSinceOpen = TRUE,
              !.nxt = "close_cb"]

\* -------------------------------------------------- fd_deliver_read_data
\* Entry: the READ up-call is made when there is an error or data.
fd_deliver_read_data(c, err) ==
    IF err # "OK" \/ c.ll.read_data_len > 0
    THEN call_read(c, err)
    ELSE [c EXCEPT !.nxt = "relock"]

\* A delivery that shortens the buffered data by what was taken but leaves
\* read_data_pos where it was.
fd_deliver_read_return_nopos(c, err, count) ==
    IF err # "OK" \/ count >= c.ll.read_data_len
    THEN [c EXCEPT !.ll.read_data_pos = 0,
                   !.ll.read_data_len = 0,
                   !.h.consumed = IF err # "OK" THEN c.h.consumed
                                  ELSE c.h.consumed \o Offered(c.ll),
                   !.nxt = "relock"]
    ELSE LET c1 == [c EXCEPT !.ll.read_data_len = c.ll.read_data_len - count,
                             !.h.consumed = c.h.consumed \o
                                            SubSeq(Offered(c.ll), 1, count)]
         IN  IF c1.ll.read_enabled
             THEN call_read(c1, "OK")
             ELSE [c1 EXCEPT !.nxt = "relock"]

\* A delivery that moves read_data_pos past what was taken but leaves
\* read_data_len as it was.
fd_deliver_read_return_keeplen(c, err, count) ==
    IF err # "OK" \/ count >= c.ll.read_data_len
    THEN [c EXCEPT !.ll.read_data_pos = 0,
                   !.ll.read_data_len = 0,
                   !.h.consumed = IF err # "OK" THEN c.h.consumed
                                  ELSE c.h.consumed \o Offered(c.ll),
                   !.nxt = "relock"]
    ELSE LET c1 == [c EXCEPT !.ll.read_data_pos = c.ll.read_data_pos + count,
                             !.h.consumed = c.h.consumed \o
                                            SubSeq(Offered(c.ll), 1, count)]
         IN  IF c1.ll.read_enabled
             THEN call_read(c1, "OK")
             ELSE [c1 EXCEPT !.nxt = "relock"]

\* The up-call returned count: drop what was taken, offer the rest again
\* while read is enabled.
fd_deliver_read_return(c, err, count) ==
    IF err # "OK" \/ count >= c.ll.read_data_len
    THEN [c EXCEPT !.ll.read_data_pos = 0,
                   !.ll.read_data_len = 0,
                   !.h.consumed = IF err # "OK" THEN c.h.consumed
                                  ELSE c.h.consumed \o Offered(c.ll),
                   !.nxt = "relock"]
    ELSE LET c1 == [c EXCEPT !.ll.read_data_pos = c.ll.read_data_pos + count,
                             !.ll.read_data_len = c.ll.read_data_len - count,
                             !.h.consumed = c.h.consumed \o
                                            SubSeq(Offered(c.ll), 1, count)]
         IN  IF c1.ll.read_enabled
             THEN call_read(c1, "OK")
             ELSE [c1 EXCEPT !.nxt = "relock"]

\* ------------------------------------------------------- fd_start_close
\* ccStart: the driver's check_close was called with
\* GENSIO_LL_CLOSE_STATE_START for the close that is under way.
fd_start_close(c) ==
    clear_fd_handlers([c EXCEPT !.h.ccStart = c.ll.check_close,
                                !.ll.state = "FD_IN_CLOSE"])

\* ------------------------------------------------------- fd_finish_open
\* After open_done has returned (or was not set): arm what is enabled.
fd_finish_open_tail(c) ==
    IF c.ll.state = "FD_OPEN"
    THEN LET c1 == IF c.ll.read_enabled
                   THEN set_except_handler(set_read_handler(c, TRUE), TRUE)
                   ELSE c
         IN  IF c1.ll.write_enabled THEN set_write_handler(c1, TRUE) ELSE c1
    ELSE c

\* A fd_finish_open that calls open_done without giving up the lock.
fd_finish_open_call_done_locked(c, err) ==
    IF c.ll.open_done # 0
    THEN call_open_done([c EXCEPT !.ll.open_done = 0], c.ll.open_done, err,
                        "wr_open_cb")
    ELSE fd_finish_open_tail(c)

fd_finish_open_call_done(c, err) ==
    IF c.ll.open_done # 0
    THEN call_open_done(fd_unlock([c EXCEPT !.ll.open_done = 0]),
                        c.ll.open_done, err, "wr_open_cb")
    ELSE fd_finish_open_tail(c)

fd_finish_open(c, err) ==
    LET c1 == IF c.ll.fd # NoFd THEN set_except_handler(c, FALSE) ELSE c
    IN  IF err # "OK"
        THEN IF c1.ll.fd = NoFd
             THEN fd_finish_open_call_done([c1 EXCEPT !.ll.state = "FD_CLOSED"],
                                           err)
             ELSE fd_start_close([c1 EXCEPT !.ll.open_err = err])
        ELSE fd_finish_open_call_done([c1 EXCEPT !.ll.state = "FD_OPEN"], err)

\* ------------------------------------------------------ fd_finish_close
\* A fd_finish_close that leaves close_done recorded after calling it.
fd_finish_close_keep(c) ==
    LET c1 == [c EXCEPT !.ll.state = "FD_CLOSED"]
    IN  IF c1.ll.close_done # 0
        THEN call_close_done(fd_unlock(c1), c1.ll.close_done)
        ELSE c1

fd_finish_close(c) ==
    LET c1 == [c EXCEPT !.ll.state = "FD_CLOSED"]
    IN  IF c1.ll.close_done # 0
        THEN call_close_done(fd_unlock([c1 EXCEPT !.ll.close_done = 0]),
                             c1.ll.close_done)
        ELSE c1

\* ------------------------------------------------- fd_sched_deferred_op
fd_sched_deferred_op(c) ==
    IF ~c.ll.deferred_op_pending
    THEN [fd_ref(c) EXCEPT !.ll.deferred_op_pending = TRUE, !.os.runner = TRUE]
    ELSE c

\* ================================================= thread ev: read ready
\* gensio_ll_fd_read -> gensio_os_read: count bytes arrive in read_data.
doread(c, count) ==
    LET base == Len(c.h.stream)
        new == [i \in 1..count |-> Byte(c.ll.fd, base + i)]
    IN  [c EXCEPT !.ll.read_data = [i \in 1..ReadSize |->
                                       IF i <= count THEN new[i]
                                       ELSE c.ll.read_data[i]],
                  !.ll.read_data_len = count,
                  !.h.stream = c.h.stream \o new]

\* The unlocked part of fd_handle_incoming: read when nothing is buffered,
\* then deliver.
fd_handle_incoming_read(c, err, count) ==
    IF c.ll.read_data_len = 0
    THEN IF err # "OK"
         THEN fd_deliver_read_data(c, err)
         ELSE fd_deliver_read_data(doread(c, count), "OK")
    ELSE fd_deliver_read_data(c, "OK")

\* fd_read_ready -> fd_handle_incoming, up to the READ up-call: disarm,
\* back off when a delivery is under way, else read and deliver.
fd_handle_incoming(c, err, count) ==
    LET c1 == fd_lock_and_ref(c, "ev")
        c2 == set_except_handler(set_read_handler(c1, FALSE), FALSE)
    IN  IF c2.ll.in_read
        THEN fd_deref_and_unlock(c2)
        ELSE fd_handle_incoming_read(fd_unlock([c2 EXCEPT !.ll.in_read = TRUE]),
                                     err, count)

\* What the OS can answer to the read: an error, or up to read_data_size
\* bytes of a handle that is open.
ReadAnswers ==
    IF fdll.in_read \/ fdll.read_data_len # 0
    THEN {<<"OK", 0>>}
    ELSE {<<"GE_IOERR", 0>>} \cup
         {<<"OK", k>> : k \in {n \in 0..ReadSize :
                                 /\ fdll.fd \in FDs
                                 /\ h.closes[fdll.fd] = 0
                                 /\ Len(h.stream) + n <= MaxBytes}}

ReadReady ==
    /\ CanStart("ev")
    /\ lock = "none"
    /\ os.handlers \cap os.rd # {}
    /\ \E a \in ReadAnswers :
          Commit("ev", fd_handle_incoming(Ctx, a[1], a[2]))

\* The READ up-call of fd_handle_incoming returns the count it consumed,
\* which the layer takes as it comes: it may exceed what was offered.
RdCbReturn ==
    /\ pc["ev"] \in InRead
    /\ \E count \in 0..ReadSize :
          Commit("ev", fd_deliver_read_return(Ctx,
                          IF pc["ev"] = "cb_err" THEN "GE_IOERR" ELSE "OK", count))

\* fd_handle_incoming after the delivery: lock, leave in_read, re-arm.
fd_handle_incoming_finish(c) ==
    LET c1 == [fd_lock(c, "ev") EXCEPT !.ll.in_read = FALSE]
        c2 == IF c1.ll.state = "FD_OPEN" /\ c1.ll.read_enabled
              THEN set_except_handler(set_read_handler(c1, TRUE), TRUE)
              ELSE c1
    IN  fd_deref_and_unlock(c2)

RdFinish ==
    /\ pc["ev"] = "relock"
    /\ lock = "none"
    /\ Commit("ev", fd_handle_incoming_finish(Ctx))

\* ============================================= thread df: the deferred op
fd_deferred_op_finish(c) ==
    LET c1 == [c EXCEPT !.ll.deferred_op_pending = FALSE]
        c2 == IF c1.ll.state = "FD_OPEN"
              THEN set_write_handler(
                     set_except_handler(
                       set_read_handler(c1, c1.ll.read_enabled),
                       c1.ll.read_enabled),
                     c1.ll.write_enabled)
              ELSE c1
    IN  fd_deref_and_unlock(c2)

\* From the retry label, lock held: deliver a deferred read or finish.
fd_deferred_op_retry(c) ==
    IF c.ll.deferred_read
    THEN fd_deliver_read_data(fd_unlock([c EXCEPT !.ll.deferred_read = FALSE]),
                              "OK")
    ELSE fd_deferred_op_finish(c)

\* Entry of fd_deferred_op: a handed-over close-done comes first.
fd_deferred_op(c) ==
    LET c1 == fd_lock(c, "df")
    IN  IF c1.ll.deferred_close
        THEN LET c2 == fd_finish_close([c1 EXCEPT !.ll.deferred_close = FALSE])
             IN  IF c2.nxt = "close_cb" THEN c2 ELSE fd_deferred_op_retry(c2)
        ELSE fd_deferred_op_retry(c1)

DeferredOp ==
    /\ CanStart("df")
    /\ lock = "none"
    /\ os.runner
    /\ Commit("df", fd_deferred_op([Ctx EXCEPT !.os.runner = FALSE]))

\* close_done, called from the deferred op, returns.
DfCloseCbReturn ==
    /\ pc["df"] = "close_cb"
    /\ lock = "none"
    /\ Commit("df", fd_deferred_op_retry(fd_lock(Ctx, "df")))

\* The READ up-call of the deferred op returns the count it consumed.
DfCbReturn ==
    /\ pc["df"] = "cb"
    /\ \E count \in 0..ReadSize :
          Commit("df", fd_deliver_read_return(Ctx, "OK", count))

\* fd_deferred_op after the delivery: lock, leave in_read, look again.
fd_deferred_op_relock(c) ==
    fd_deferred_op_retry([fd_lock(c, "df") EXCEPT !.ll.in_read = FALSE])

DfRelock ==
    /\ pc["df"] = "relock"
    /\ lock = "none"
    /\ Commit("df", fd_deferred_op_relock(Ctx))

\* ========================================= thread ev: write/except ready
\* A handler that has come back with the lock held drops its reference.
Unwind(c) == IF c.nxt = "idle" THEN fd_deref_and_unlock(c) ELSE c

\* retry_open answered res; GE_INPROGRESS and OK come with a new handle.
retry_open(c, res) ==
    IF res \in {"OK", "GE_INPROGRESS"} THEN new_fd(c) ELSE c

\* fd_handle_write_ready, lock held.  chk is check_open's answer, res is
\* retry_open's, ok tells whether set_fd_handlers found memory.
fd_handle_write_ready(c, chk, res, ok) ==
    LET c1 == set_write_handler(c, FALSE)
    IN  IF c1.ll.state = "FD_IN_OPEN"
        THEN IF chk # "OK" /\ c1.ll.retry_open
             THEN LET c2 == os_close(clear_fd_handlers_norpt(c1))
                      c3 == retry_open([c2 EXCEPT !.ll.fd = NoFd], res)
                  IN  IF res # "GE_INPROGRESS"
                      THEN fd_finish_open(c3, res)
                      ELSE IF ~ok
                           THEN fd_finish_open(c3, "GE_NOMEM")
                           ELSE set_except_handler(
                                  set_write_handler(fd_setup_handlers(c3, TRUE),
                                                    TRUE), TRUE)
             ELSE fd_finish_open(c1, chk)
        ELSE [fd_unlock(c1) EXCEPT !.nxt = "wr_cb"]

fd_write_ready(c, chk, res, ok) ==
    Unwind(fd_handle_write_ready(fd_lock_and_ref(c, "ev"), chk, res, ok))

\* A fd_except_ready that leaves the connect to the write-ready event.
fd_except_ready_ignored(c, chk, res, ok) ==
    fd_unlock(fd_lock(c, "ev"))

fd_except_ready(c, chk, res, ok) ==
    LET c1 == fd_lock(c, "ev")
    IN  IF c1.ll.state = "FD_IN_OPEN"
        THEN Unwind(fd_handle_write_ready(fd_ref(c1), chk, res, ok))
        ELSE fd_unlock(c1)

\* The answers the driver and the OS can give to a connect completion.
OpenAnswers ==
    IF fdll.state # "FD_IN_OPEN"
    THEN {<<"OK", "OK", TRUE>>}
    ELSE {a \in {"OK", "GE_CONNREFUSE"} \X
                {"OK", "GE_INPROGRESS", "GE_CONNREFUSE"} \X BOOLEAN :
            /\ (a[1] = "OK" \/ ~fdll.retry_open) => (a[2] = "OK" /\ a[3])
            /\ a[2] # "GE_INPROGRESS" => a[3]
            /\ (a[1] # "OK" /\ fdll.retry_open /\ a[2] \in {"OK", "GE_INPROGRESS"})
                  => h.nfd < MaxFd}

WriteReady ==
    /\ CanStart("ev")
    /\ lock = "none"
    /\ os.handlers \cap os.wr # {}
    /\ \E a \in OpenAnswers :
          Commit("ev", fd_write_ready(Ctx, a[1], a[2], a[3]))

ExceptReady ==
    /\ CanStart("ev")
    /\ lock = "none"
    /\ os.handlers \cap os.ex # {}
    /\ \E a \in OpenAnswers :
          Commit("ev", fd_except_ready(Ctx, a[1], a[2], a[3]))

\* The WRITE_READY up-call returns: lock, re-arm, drop the reference.
fd_handle_write_ready_return(c) ==
    LET c1 == fd_lock(c, "ev")
        c2 == IF c1.ll.state = "FD_OPEN" /\ c1.ll.write_enabled
              THEN set_write_handler(c1, TRUE) ELSE c1
    IN  fd_deref_and_unlock(c2)

WrCbReturn ==
    /\ pc["ev"] = "wr_cb"
    /\ lock = "none"
    /\ Commit("ev", fd_handle_write_ready_return(Ctx))

\* open_done, called from fd_finish_open, returns.
fd_finish_open_return(c) ==
    fd_deref_and_unlock(fd_finish_open_tail(fd_lock(open_done_return(c), "ev")))

WrOpenCbReturn ==
    /\ pc["ev"] = "wr_open_cb"
    /\ lock = "none"
    /\ Commit("ev", fd_finish_open_return(Ctx))

\* ================================== thread ev: cleared and the close timer
\* fd_finish_cleared after the open_done of a failed or cancelled open.
fd_finish_cleared_tail(c) ==
    IF c.ll.deferred_op_pending
    THEN fd_deref_and_unlock([c EXCEPT !.ll.deferred_close = TRUE])
    ELSE Unwind(fd_finish_close(c))

fd_finish_cleared(c) ==
    LET c1 == fd_lock_and_ref(c, "ev")
        c2 == [os_close(c1) EXCEPT !.ll.fd = NoFd, !.h.ccStart = FALSE]
    IN  IF c2.ll.open_done # 0
        THEN call_open_done(fd_unlock([c2 EXCEPT !.ll.open_done = 0,
                                                 !.ll.state = "FD_CLOSED"]),
                            c2.ll.open_done, c2.ll.open_err, "cl_open_cb")
        ELSE fd_finish_cleared_tail(c2)

\* fd_close_timeout: poll check_close(DONE), answer res; wait or finish.
fd_close_timeout(c, res) ==
    LET err == IF c.ll.check_close THEN res ELSE "OK"
    IN  IF err = "GE_INPROGRESS"
        THEN [c EXCEPT !.os.timer = TRUE, !.h.polls = c.h.polls + 1]
        ELSE fd_finish_cleared(c)

fd_cleared(c, res) ==
    IF c.ll.check_close THEN fd_close_timeout(c, res) ELSE fd_finish_cleared(c)

PollAnswers ==
    IF fdll.check_close /\ h.polls < MaxPoll
    THEN {"OK", "GE_INPROGRESS"} ELSE {"OK"}

\* The OS-Funcs report the handlers cleared once no up-call of the handle
\* is in flight.
Cleared ==
    /\ CanStart("ev")
    /\ lock = "none"
    /\ \E fd \in os.clr, res \in PollAnswers :
          Commit("ev", fd_cleared([Ctx EXCEPT !.os.clr = os.clr \ {fd}], res))

CloseTimeout ==
    /\ CanStart("ev")
    /\ lock = "none"
    /\ os.timer
    /\ \E res \in PollAnswers :
          Commit("ev", fd_close_timeout([Ctx EXCEPT !.os.timer = FALSE], res))

ClOpenCbReturn ==
    /\ pc["ev"] = "cl_open_cb"
    /\ lock = "none"
    /\ Commit("ev", fd_finish_cleared_tail(fd_lock(open_done_return(Ctx), "ev")))

ClCloseCbReturn ==
    /\ pc["ev"] = "close_cb"
    /\ lock = "none"
    /\ Commit("ev", fd_deref_and_unlock(fd_lock(Ctx, "ev")))

\* ===================================================== the upper layer
\* What fd_open returns: sub_open's answer, or GE_NOMEM from the handlers.
fd_open_result(res, ok) ==
    IF res \in {"OK", "GE_INPROGRESS"} /\ ~ok THEN "GE_NOMEM" ELSE res

\* fd_open with open_done id: sub_open answers res (a handle comes with OK
\* and GE_INPROGRESS), ok tells whether set_fd_handlers found memory.
fd_open(c, id, res, ok) ==
    LET c1 == fd_lock(c, "user")
        c2 == IF res \in {"OK", "GE_INPROGRESS"} THEN new_fd(c1) ELSE c1
        c3 == IF res \in {"OK", "GE_INPROGRESS"}
              THEN IF ~ok
                   THEN [os_close(c2) EXCEPT !.ll.fd = NoFd]
                   ELSE LET c4 == fd_setup_handlers(c2, TRUE)
                        IN  IF res = "GE_INPROGRESS"
                            THEN set_except_handler(
                                   set_write_handler(
                                     [c4 EXCEPT !.ll.state = "FD_IN_OPEN",
                                                !.ll.open_done = id],
                                     TRUE), TRUE)
                            ELSE [c4 EXCEPT !.ll.state = "FD_OPEN"]
              ELSE c2
    IN  fd_unlock(c3)

\* The call as the upper layer sees it, with what it is remembered by.
OpenCall(res, ok) ==
    LET id == h.nopen + 1
        c == fd_open(Ctx, id, res, ok)
        ret == fd_open_result(res, ok)
    IN  CommitUser([c EXCEPT
            !.h.nopen = id,
            !.h.openIP = IF ret = "GE_INPROGRESS"
                         THEN h.openIP \cup {id} ELSE h.openIP,
            !.h.cdSinceOpen = IF ret \in {"OK", "GE_INPROGRESS"}
                              THEN FALSE ELSE c.h.cdSinceOpen])

SubOpenAnswers ==
    {a \in {"OK", "GE_INPROGRESS", "GE_CONNREFUSE"} \X BOOLEAN :
        /\ a[1] = "GE_CONNREFUSE" => a[2]
        /\ a[1] # "GE_CONNREFUSE" => h.nfd < MaxFd}

\* The upper layer holds its reference and has not disabled the layer.
UserActive == h.userRef /\ ~h.disabled /\ lock = "none"

\* The upper layer has nothing in flight on a closed layer.
UserIdle ==
    fdll.state = "FD_CLOSED" /\ ~OdPending(h) /\ ~CdPending(h)

\* An open on a layer the upper layer knows to be closed.
UserOpen ==
    /\ UserActive /\ UserIdle
    /\ h.nopen < MaxOpenReq
    /\ \E a \in SubOpenAnswers : OpenCall(a[1], a[2])

\* An open while a cycle is already under way.
UserOpenAgain ==
    /\ UserActive /\ ~UserIdle
    /\ h.nopen < MaxOpenReq
    /\ \E a \in SubOpenAnswers : OpenCall(a[1], a[2])

\* Inside a done callback on a closed layer: open_done reporting a failed
\* open, or close_done.
InDoneCb ==
    pc["ev"] \in {"cl_open_cb", "close_cb"} \/ pc["df"] = "close_cb"

\* The upper layer opens the layer again from inside a done callback.
UserReopen ==
    /\ UserActive /\ UserIdle
    /\ InDoneCb
    /\ h.nopen < MaxOpens
    /\ \E a \in SubOpenAnswers : OpenCall(a[1], a[2])

\* What fd_close returns.
fd_close_result(c) ==
    IF c.ll.state \in {"FD_OPEN", "FD_IN_OPEN"} THEN "OK" ELSE "GE_NOTREADY"

\* A fd_close that records close_done before it looks at the state.
fd_close_record_first(c, id) ==
    LET c1 == [fd_lock(c, "user") EXCEPT !.ll.close_done = id]
        c2 == IF c1.ll.state \in {"FD_OPEN", "FD_IN_OPEN"}
              THEN fd_start_close(c1)
              ELSE c1
    IN  fd_unlock(c2)

\* fd_close with close_done id.
fd_close(c, id) ==
    LET c1 == fd_lock(c, "user")
        c2 == IF c1.ll.state \in {"FD_OPEN", "FD_IN_OPEN"}
              THEN fd_start_close([c1 EXCEPT !.ll.close_done = id])
              ELSE c1
    IN  fd_unlock(c2)

UserClose ==
    /\ UserActive
    /\ h.nclose < MaxCloseReq
    /\ LET id == h.nclose + 1
           c == fd_close(Ctx, id)
       IN  CommitUser([c EXCEPT !.h.nclose = id,
                                !.h.closeOK = IF fd_close_result(Ctx) = "OK"
                                              THEN h.closeOK \cup {id}
                                              ELSE h.closeOK])

\* A read enable that schedules the deferred delivery without claiming
\* in_read for it.
fd_set_read_callback_enable_noflag(c, enabled) ==
    LET c1 == fd_lock(c, "user")
    IN  IF c1.ll.write_only
        THEN fd_unlock(c1)
        ELSE LET c2 == [c1 EXCEPT !.ll.read_enabled = enabled]
             IN  IF \/ c2.ll.in_read
                    \/ c2.ll.state # "FD_OPEN"
                    \/ (c2.ll.read_data_len # 0 /\ ~enabled)
                 THEN fd_unlock(c2)
                 ELSE IF c2.ll.read_data_len # 0
                      THEN fd_unlock(fd_sched_deferred_op(
                               [c2 EXCEPT !.ll.deferred_read = TRUE]))
                      ELSE fd_unlock(set_except_handler(
                                       set_read_handler(c2, enabled), enabled))

\* A read enable that does not look at write_only.
fd_set_read_callback_enable_nowo(c, enabled) ==
    LET c1 == fd_lock(c, "user")
        c2 == [c1 EXCEPT !.ll.read_enabled = enabled]
    IN  IF \/ c2.ll.in_read
           \/ c2.ll.state # "FD_OPEN"
           \/ (c2.ll.read_data_len # 0 /\ ~enabled)
        THEN fd_unlock(c2)
        ELSE IF c2.ll.read_data_len # 0
             THEN fd_unlock(fd_sched_deferred_op(
                      [c2 EXCEPT !.ll.in_read = TRUE,
                                 !.ll.deferred_read = TRUE]))
             ELSE fd_unlock(set_except_handler(
                              set_read_handler(c2, enabled), enabled))

fd_set_read_callback_enable(c, enabled) ==
    LET c1 == fd_lock(c, "user")
    IN  IF c1.ll.write_only
        THEN fd_unlock(c1)
        ELSE LET c2 == [c1 EXCEPT !.ll.read_enabled = enabled]
             IN  IF \/ c2.ll.in_read
                    \/ c2.ll.state # "FD_OPEN"
                    \/ (c2.ll.read_data_len # 0 /\ ~enabled)
                 THEN fd_unlock(c2)
                 ELSE IF c2.ll.read_data_len # 0
                      THEN fd_unlock(fd_sched_deferred_op(
                               [c2 EXCEPT !.ll.in_read = TRUE,
                                          !.ll.deferred_read = TRUE]))
                      ELSE fd_unlock(set_except_handler(
                                       set_read_handler(c2, enabled), enabled))

UserSetRead ==
    /\ UserActive
    /\ \E enabled \in BOOLEAN :
          CommitUser([fd_set_read_callback_enable(Ctx, enabled) EXCEPT
                         !.h.everEnabled = h.everEnabled \/ enabled])

fd_set_write_callback_enable(c, enabled) ==
    LET c1 == [fd_lock(c, "user") EXCEPT !.ll.write_enabled = enabled]
    IN  IF c1.ll.state \in {"FD_OPEN", "FD_IN_OPEN"}
        THEN fd_unlock(set_write_handler(c1, enabled))
        ELSE fd_unlock(c1)

UserSetWrite ==
    /\ UserActive
    /\ \E enabled \in BOOLEAN :
          CommitUser(fd_set_write_callback_enable(Ctx, enabled))

fd_free(c) == fd_deref_and_unlock(fd_lock(c, "user"))

\* The upper layer gives up its reference once the layer is closed and
\* nothing it asked for is still owed.
UserFree ==
    /\ h.userRef /\ lock = "none"
    /\ UserIdle
    /\ CommitUser([fd_free(Ctx) EXCEPT !.h.userRef = FALSE])

\* A fd_disable that clears the handlers the way fd_close does, with the
\* cleared report.
fd_disable_rpt(c) ==
    [os_close(clear_fd_handlers([c EXCEPT !.ll.state = "FD_CLOSED"]))
        EXCEPT !.ll.fd = NoFd]

\* fd_disable takes no lock.
fd_disable(c) ==
    [os_close(clear_fd_handlers_norpt([c EXCEPT !.ll.state = "FD_CLOSED"]))
        EXCEPT !.ll.fd = NoFd]

UserDisable ==
    /\ UserActive
    /\ CommitUser([fd_disable(Ctx) EXCEPT !.h.disabled = TRUE])

\* ================================================================ Next
EventStep ==
    \/ ReadReady \/ RdCbReturn \/ RdFinish
    \/ DeferredOp \/ DfCloseCbReturn \/ DfCbReturn \/ DfRelock
    \/ WriteReady \/ ExceptReady \/ WrCbReturn \/ WrOpenCbReturn
    \/ Cleared \/ CloseTimeout \/ ClOpenCbReturn \/ ClCloseCbReturn

UserStep ==
    \/ UserOpen \/ UserClose \/ UserSetRead \/ UserSetWrite
    \/ UserFree \/ UserDisable

Next == EventStep \/ UserStep

\* The upper layer opens only a layer it knows to be closed.
Spec == Init /\ [][Next]_vars

\* The upper layer may also issue an open in the middle of a cycle.
NextAnyOpen == Next \/ UserOpenAgain

SpecAnyOpen == Init /\ [][NextAnyOpen]_vars

\* The upper layer may also open once more from inside a done callback.
NextReopen == Next \/ UserReopen

SpecReopen == Init /\ [][NextReopen]_vars

\* The handle's events and the deferred runner on threads of their own.
SpecThreads == InitThreads /\ [][Next]_vars

\* The same with what the OS-Funcs and the upper layer guarantee: an up-call
\* returns, the thread that made it goes on, a scheduled runner runs, a
\* cleared report and a started timer are delivered.  Nothing makes the
\* handle readable or writable, and nothing makes the upper layer call.
SpecThreadsFair ==
    /\ SpecThreads
    /\ WF_vars(RdCbReturn) /\ WF_vars(RdFinish)
    /\ WF_vars(DeferredOp) /\ WF_vars(DfCloseCbReturn) /\ WF_vars(DfCbReturn)
    /\ WF_vars(DfRelock)
    /\ WF_vars(WrCbReturn) /\ WF_vars(WrOpenCbReturn)
    /\ WF_vars(Cleared) /\ WF_vars(CloseTimeout)
    /\ WF_vars(ClOpenCbReturn) /\ WF_vars(ClCloseCbReturn)

\* The READ up-call returns 0 with data offered and read still enabled:
\* fd_deliver_read_data goes back to its retry label and makes the up-call
\* again.  The state of the layer is as it was before; retried records that
\* the up-call was made again.
ReadRetry ==
    \E t \in Threads :
        /\ pc[t] = "cb"
        /\ fdll.read_enabled /\ fdll.read_data_len > 0
        /\ Commit(t, [fd_deliver_read_return(Ctx, "OK", 0) EXCEPT
                         !.h.retried = TRUE])

NextRetry == Next \/ ReadRetry

\* The layer with the repeated READ up-calls told apart.
SpecRetry == Init /\ [][NextRetry]_vars

\* ================================================= the OOB queue of ioinfo
\* The FD layer stands still while the ioinfo runs.
InitOob ==
    /\ mt = FALSE
    /\ fdll = InitLL(NoFd, FALSE, FALSE, FALSE)
    /\ os = InitOS(NoFd)
    /\ lock = "none"
    /\ pc = [t \in Threads |-> "idle"]
    /\ h = InitH(NoFd)
    /\ ioinfo = InitIoinfo
    /\ mdns = NoMdns
    /\ avahi = <<>>

CommitOob(i) ==
    /\ ioinfo' = i
    /\ UNCHANGED <<mt, fdll, os, lock, pc, h, mdns, avahi>>

\* gensio_write on the endpoint's gensio accepted count bytes, taken from
\* offset from of what was offered: OOB record rec under the aux tag "oob",
\* or forwarded data (rec = NoOob).
gensio_write(i, tag, rec, from, count) ==
    [i EXCEPT !.wire = i.wire \o [k \in 1..count |-> <<tag, rec, from + k>>]]

\* uh->shutdown: the tool takes the endpoints down.
shutdown(i) == [i EXCEPT !.shut = TRUE, !.at = "idle"]

\* ioinfo_set_ready: the gensio is attached and read is enabled on both
\* sides.
ioinfo_set_ready(i) ==
    [i EXCEPT !.ready = TRUE, !.other_rd_enabled = TRUE]

SetReady ==
    /\ ~ioinfo.ready /\ ~ioinfo.shut
    /\ CommitOob(ioinfo_set_ready(ioinfo))

\* A sendoob that puts the record in front of the queue.
ioinfo_sendoob_front(i, rec) ==
    [i EXCEPT !.next[rec] = i.oob_head,
              !.oob_head = rec,
              !.oob_tail = IF i.oob_tail = NoOob THEN rec ELSE i.oob_tail,
              !.wr_enabled = TRUE]

\* ioinfo_sendoob: the record goes to the tail, write callbacks go on.
ioinfo_sendoob(i, rec) ==
    LET i1 == [i EXCEPT !.next[rec] = NoOob]
        i2 == IF i1.oob_tail # NoOob
              THEN [i1 EXCEPT !.next[i1.oob_tail] = rec]
              ELSE [i1 EXCEPT !.oob_head = rec]
    IN  [i2 EXCEPT !.oob_tail = rec, !.wr_enabled = TRUE]

\* The tool hands over a new record of n bytes, with or without send_done,
\* between events or from inside a send_done callback.
SendOob ==
    /\ ioinfo.ready /\ ~ioinfo.shut
    /\ ioinfo.nsent < MaxOob
    /\ \E n \in 1..MaxOobLen, sd \in BOOLEAN :
          LET rec == ioinfo.nsent + 1
              i1 == [ioinfo EXCEPT !.nsent = rec,
                                   !.buf[rec] = 0,
                                   !.len[rec] = n,
                                   !.origlen[rec] = n,
                                   !.send_done[rec] = sd]
          IN  CommitOob(ioinfo_sendoob(i1, rec))

\* io_event, WRITE_READY, after send_done: the head record leaves the queue.
io_event_dequeue(i) ==
    LET i1 == [i EXCEPT !.oob_head = i.next[i.oob]]
        i2 == IF i1.oob_head = NoOob
              THEN [i1 EXCEPT !.oob_tail = NoOob] ELSE i1
    IN  [i2 EXCEPT !.oob = NoOob, !.at = "idle"]

\* A short write that leaves the head record's buf where it was.
io_event_short_write_nobuf(i, count) ==
    [i EXCEPT !.len[i.oob] = i.len[i.oob] - count,
              !.oob = NoOob]

\* io_event, WRITE_READY, short write: the head record is advanced in place.
io_event_short_write(i, count) ==
    [i EXCEPT !.buf[i.oob] = i.buf[i.oob] + count,
              !.len[i.oob] = i.len[i.oob] - count,
              !.oob = NoOob]

\* A WRITE_READY that goes on to the ordinary handling after a short write
\* of the head record.
io_event_write_ready_fallthrough(i, rv, count) ==
    IF i.oob_head # NoOob
    THEN LET i1 == [i EXCEPT !.oob = i.oob_head]
         IN  IF rv # "OK"
             THEN shutdown([i1 EXCEPT !.oob = NoOob])
             ELSE LET i2 == gensio_write(i1, "oob", i1.oob, i1.buf[i1.oob], count)
                  IN  IF count >= i2.len[i2.oob]
                      THEN IF i2.send_done[i2.oob]
                           THEN [i2 EXCEPT !.done = Append(i2.done, i2.oob),
                                           !.at = "send_done"]
                           ELSE io_event_dequeue(i2)
                      ELSE [io_event_short_write(i2, count)
                               EXCEPT !.other_rd_enabled = TRUE,
                                      !.wr_enabled = FALSE]
    ELSE [i EXCEPT !.other_rd_enabled = TRUE, !.wr_enabled = FALSE]

\* io_event, GENSIO_EVENT_WRITE_READY.  rv and count are gensio_write's
\* answer for the head record.
io_event_write_ready(i, rv, count) ==
    IF i.oob_head # NoOob
    THEN LET i1 == [i EXCEPT !.oob = i.oob_head]
         IN  IF rv # "OK"
             THEN shutdown([i1 EXCEPT !.oob = NoOob])
             ELSE LET i2 == gensio_write(i1, "oob", i1.oob, i1.buf[i1.oob], count)
                  IN  IF count >= i2.len[i2.oob]
                      THEN IF i2.send_done[i2.oob]
                           THEN [i2 EXCEPT !.done = Append(i2.done, i2.oob),
                                           !.at = "send_done"]
                           ELSE io_event_dequeue(i2)
                      ELSE io_event_short_write(i2, count)
    ELSE [i EXCEPT !.other_rd_enabled = TRUE, !.wr_enabled = FALSE]

\* What gensio_write can answer for n bytes offered.
WriteAnswers(n) ==
    {<<"GE_IOERR", 0>>} \cup {<<"OK", k>> : k \in 0..n}

\* The gensio reports write-ready while write callbacks are on.
OobWriteReady ==
    /\ ioinfo.ready /\ ~ioinfo.shut
    /\ ioinfo.at = "idle"
    /\ ioinfo.wr_enabled
    /\ \E a \in WriteAnswers(IF ioinfo.oob_head = NoOob THEN 0
                             ELSE ioinfo.len[ioinfo.oob_head]) :
          CommitOob(io_event_write_ready(ioinfo, a[1], a[2]))

\* send_done returns.
SendDoneReturn ==
    /\ ioinfo.at = "send_done"
    /\ CommitOob(io_event_dequeue(ioinfo))

\* A READ that turns the reader off after a short write and leaves this
\* endpoint's write callbacks as they are.
io_event_read_nowrite(i, buflen, rv, cnt) ==
    IF i.ready /\ rv # "OK"
    THEN shutdown(i)
    ELSE LET count == IF i.ready THEN cnt ELSE 0
             i1 == IF i.ready
                   THEN [gensio_write(i, "normal", NoOob, i.nnormal, count)
                            EXCEPT !.nnormal = i.nnormal + count]
                   ELSE i
         IN  IF count < buflen
             THEN [i1 EXCEPT !.taken = i1.taken + count,
                             !.other_rd_enabled = FALSE]
             ELSE [i1 EXCEPT !.taken = i1.taken + buflen]

\* io_event of the other side, GENSIO_EVENT_READ with buflen bytes that are
\* not tagged "oob" and no escape character set: they are written to this
\* endpoint's gensio, and a short write turns the reader off and this
\* endpoint's write callbacks on.  taken adds up the *buflen the event
\* handler reports consumed.
io_event_read(i, buflen, rv, cnt) ==
    IF i.ready /\ rv # "OK"
    THEN shutdown(i)
    ELSE LET count == IF i.ready THEN cnt ELSE 0
             i1 == IF i.ready
                   THEN [gensio_write(i, "normal", NoOob, i.nnormal, count)
                            EXCEPT !.nnormal = i.nnormal + count]
                   ELSE i
         IN  IF count < buflen
             THEN [i1 EXCEPT !.taken = i1.taken + count,
                             !.other_rd_enabled = FALSE,
                             !.wr_enabled = IF i1.ready THEN TRUE
                                            ELSE i1.wr_enabled]
             ELSE [i1 EXCEPT !.taken = i1.taken + buflen]

\* The other side's gensio reports data while its read callbacks are on.
OtherRead ==
    /\ ~ioinfo.shut
    /\ ioinfo.at = "idle"
    /\ ioinfo.other_rd_enabled
    /\ \E buflen \in 1..MaxNormal :
          /\ ioinfo.nnormal + buflen <= MaxNormal
          /\ \E a \in WriteAnswers(IF ioinfo.ready THEN buflen ELSE 0) :
                CommitOob(io_event_read(ioinfo, buflen, a[1], a[2]))

NextOob == SetReady \/ SendOob \/ OobWriteReady \/ SendDoneReturn \/ OtherRead

SpecOob == InitOob /\ [][NextOob]_vars

\* The same with a gensio that is attached in the end, goes on reporting
\* write-ready while write callbacks are on and accepts bytes then, and a
\* send_done that returns.
SpecOobFair ==
    /\ SpecOob
    /\ WF_vars(SetReady) /\ WF_vars(OobWriteReady) /\ WF_vars(SendDoneReturn)

\* ====================================================== the mDNS front end
\* A watch: struct gensio_mdns_watch with its callback_data, and below it
\* one service browser (b) with one resolver (r) holding one result (e, a
\* struct gensio_mdns_result with its cbdata).  mem tells whether the
\* structure is allocated.  The callbacks are named by the structure they
\* lie in: <<"w", x>> is the callback_data of watch x, <<"e", x>> the cbdata
\* of its result; inq holds those whose in_queue is set.
InitWatch ==
    [mem |-> "none", listed |-> FALSE, browser |-> FALSE,
     removed |-> FALSE, remove_done |-> 0, service_calls_pending |-> 0,
     remove |-> FALSE, all_for_now |-> FALSE,
     b |-> FALSE, r |-> FALSE,
     e |-> "none", e_listed |-> FALSE, e_state |-> "none",
     tseen |-> {}, bseen |-> {},
     nrm |-> 0, rdCalls |-> 0]

\* gensio_alloc_mdns has succeeded; running tells whether the Avahi client
\* has reported AVAHI_CLIENT_S_RUNNING.
InitM(running) ==
    [running |-> running, refcount |-> 1,
     freed |-> FALSE, free_done |-> 0,
     runner_pending |-> FALSE, run |-> FALSE, callbacks |-> <<>>, inq |-> {},
     ac |-> TRUE, poll_freeing |-> FALSE, gone |-> FALSE,
     w |-> [x \in Watches |-> InitWatch],
     nfree |-> 0, fdCalls |-> 0,
     at |-> "idle", cur |-> <<"w", 0>>,
     uaf |-> FALSE, assertFail |-> FALSE, listErr |-> FALSE]

InitMdns ==
    /\ mt = FALSE
    /\ fdll = InitLL(NoFd, FALSE, FALSE, FALSE)
    /\ os = InitOS(NoFd)
    /\ lock = "none"
    /\ pc = [t \in Threads |-> "idle"]
    /\ h = InitH(NoFd)
    /\ ioinfo = NoIoinfo
    /\ \E running \in BOOLEAN : mdns = InitM(running)
    /\ avahi = <<>>

\* A use after free, a failed assert or a broken list ends the run.
CommitMdns(m) ==
    /\ ~mdns.uaf /\ ~mdns.assertFail /\ ~mdns.listErr
    /\ mdns' = m
    /\ UNCHANGED <<mt, fdll, os, lock, pc, h, ioinfo, avahi>>

\* gensio_mdns_deref: assert(refcount > 1); refcount--.
gensio_mdns_deref(m) ==
    IF m.refcount > 1
    THEN [m EXCEPT !.refcount = m.refcount - 1]
    ELSE [m EXCEPT !.assertFail = TRUE]

\* gensio_mdns_finish_free: the client goes, and with it its browsers and
\* resolvers; the poll is asked to report when it is free.
gensio_mdns_finish_free(m) ==
    [m EXCEPT !.ac = FALSE, !.poll_freeing = TRUE]

\* gensio_mdns_deref_and_unlock.
gensio_mdns_deref_and_unlock(m) ==
    IF m.refcount = 0
    THEN [m EXCEPT !.assertFail = TRUE]
    ELSE LET m1 == [m EXCEPT !.refcount = m.refcount - 1]
         IN  IF m1.refcount = 0 THEN gensio_mdns_finish_free(m1) ELSE m1

\* gensio_list_rm(&m->callbacks, &c->link); the link must be in the list.
callbacks_rm(m, c) ==
    IF \E k \in 1..Len(m.callbacks) : m.callbacks[k] = c
    THEN [m EXCEPT !.callbacks = SelectSeq(m.callbacks, LAMBDA d : d # c)]
    ELSE [m EXCEPT !.listErr = TRUE]

\* enqueue_callback.
enqueue_callback(m, c) ==
    LET m1 == IF c \notin m.inq
              THEN [m EXCEPT !.callbacks = Append(m.callbacks, c),
                             !.inq = m.inq \cup {c},
                             !.refcount = m.refcount + 1]
              ELSE m
    IN  IF ~m1.runner_pending
        THEN [m1 EXCEPT !.runner_pending = TRUE,
                        !.refcount = m1.refcount + 1,
                        !.run = TRUE]
        ELSE m1

\* result_free: the result of watch x and its callback data are released.
result_free(m, x) ==
    IF m.w[x].e = "live"
    THEN [m EXCEPT !.w[x].e = "freed"]
    ELSE [m EXCEPT !.uaf = TRUE]

\* watch_free.
watch_free(m, x) ==
    IF m.w[x].mem = "live"
    THEN [m EXCEPT !.w[x].mem = "freed"]
    ELSE [m EXCEPT !.uaf = TRUE]

\* avahi_add_watch: ok tells whether avahi_service_type_browser_new gave a
\* browser.
avahi_add_watch(m, x, ok) ==
    IF ok
    THEN [m EXCEPT !.w[x].browser = TRUE,
                   !.w[x].service_calls_pending = m.w[x].service_calls_pending + 1]
    ELSE m

\* gensio_mdns_add_watch of watch x, the strings duplicated.
gensio_mdns_add_watch(m, x, ok) ==
    LET m1 == [m EXCEPT !.w[x] = [InitWatch EXCEPT !.mem = "live"]]
        m2 == IF m1.running
              THEN [avahi_add_watch(m1, x, ok) EXCEPT !.w[x].listed = TRUE]
              ELSE IF m1.w[x].browser
                   THEN [m1 EXCEPT !.w[x].listed = TRUE]
                   ELSE m1
    IN  IF m2.running /\ ~m2.w[x].browser
        THEN watch_free(m2, x)
        ELSE m2

\* resolver_remove of the resolver of watch x.
resolver_remove(m, x) ==
    LET m1 == IF m.w[x].e_listed
              THEN LET m2 == [m EXCEPT !.w[x].e_listed = FALSE]
                   IN  IF <<"e", x>> \in m2.inq
                       THEN IF m2.w[x].e_state = "NEW_DATA"
                            THEN result_free(
                                   gensio_mdns_deref(
                                     callbacks_rm(m2, <<"e", x>>)), x)
                            ELSE m2
                       ELSE enqueue_callback(
                              [m2 EXCEPT !.w[x].e_state = "DATA_GONE"],
                              <<"e", x>>)
              ELSE m
    IN  [m1 EXCEPT !.w[x].r = FALSE]

\* browser_finish_one.
browser_finish_one(m, x) ==
    IF m.w[x].service_calls_pending = 0
    THEN [m EXCEPT !.assertFail = TRUE]
    ELSE LET m1 == [m EXCEPT !.w[x].service_calls_pending =
                                 m.w[x].service_calls_pending - 1]
         IN  IF m1.w[x].service_calls_pending = 0
             THEN enqueue_callback([m1 EXCEPT !.w[x].all_for_now = TRUE],
                                   <<"w", x>>)
             ELSE m1

\* i_gensio_mdns_remove_watch: the watch leaves the list, what lies below it
\* is released, and its removal is queued for the runner.
i_gensio_mdns_remove_watch(m, x, done) ==
    LET m1 == [m EXCEPT !.w[x].removed = TRUE,
                        !.w[x].remove_done = done,
                        !.w[x].listed = FALSE,
                        !.uaf = m.uaf \/ m.w[x].mem # "live",
                        !.listErr = m.listErr \/ ~m.w[x].listed]
        m2 == IF m1.w[x].b /\ m1.w[x].r /\ m1.w[x].e_listed
              THEN LET m3 == IF <<"e", x>> \in m1.inq
                             THEN callbacks_rm(m1, <<"e", x>>)
                             ELSE m1
                   IN  result_free([m3 EXCEPT !.w[x].e_listed = FALSE], x)
              ELSE m1
        m4 == [m2 EXCEPT !.w[x].r = FALSE, !.w[x].b = FALSE,
                         !.w[x].remove = TRUE]
    IN  enqueue_callback(m4, <<"w", x>>)

\* gensio_mdns_remove_watch.
gensio_mdns_remove_watch(m, x, done) ==
    IF m.w[x].removed
    THEN m
    ELSE i_gensio_mdns_remove_watch(m, x, done)

\* gensio_free_mdns, the loop over m->callbacks: every callback leaves the
\* list, a result reported gone is released.
RECURSIVE free_callbacks(_)
free_callbacks(m) ==
    IF m.callbacks = <<>> THEN m
    ELSE LET c == Head(m.callbacks)
             m1 == [m EXCEPT !.callbacks = Tail(m.callbacks)]
         IN  free_callbacks(
               IF c[1] = "e" /\ m1.w[c[2]].e_state = "DATA_GONE"
               THEN result_free(m1, c[2])
               ELSE m1)

\* The watch that was added first among those of S.
First(S) == CHOOSE x \in S : \A y \in S : x <= y

\* gensio_free_mdns, the loop over m->watches, S still to come.
RECURSIVE free_watches(_, _)
free_watches(m, S) ==
    IF S = {} THEN m
    ELSE free_watches(
           IF m.w[First(S)].listed
           THEN i_gensio_mdns_remove_watch(m, First(S), 0) ELSE m,
           S \ {First(S)})

\* A free that records done before it looks at freed.
gensio_free_mdns_record_first(m, done) ==
    LET m0 == [m EXCEPT !.free_done = done]
    IN  IF m.freed
        THEN m0
        ELSE LET m1 == [m0 EXCEPT !.freed = TRUE]
                 m2 == free_watches(free_callbacks(m1), Watches)
             IN  IF m2.refcount = 1
                 THEN IF ~m2.runner_pending
                      THEN [m2 EXCEPT !.runner_pending = TRUE, !.run = TRUE]
                      ELSE m2
                 ELSE gensio_mdns_deref(m2)

\* gensio_free_mdns.
gensio_free_mdns(m, done) ==
    IF m.freed
    THEN m
    ELSE LET m1 == [m EXCEPT !.freed = TRUE, !.free_done = done]
             m2 == free_watches(free_callbacks(m1), Watches)
         IN  IF m2.refcount = 1
             THEN IF ~m2.runner_pending
                  THEN [m2 EXCEPT !.runner_pending = TRUE, !.run = TRUE]
                  ELSE m2
             ELSE gensio_mdns_deref(m2)

\* mdns_runner, the loop with the lock held, up to the next callback or to
\* the end of the queue.  An entry that lies in a structure already freed is
\* read from freed memory: the run ends there, or, with intact, the memory
\* still holds what it held and the runner goes by that.
RECURSIVE mdns_runner_loop(_, _)
mdns_runner_loop(m, intact) ==
    IF m.uaf \/ m.assertFail \/ m.listErr THEN m
    ELSE IF m.callbacks = <<>>
    THEN gensio_mdns_deref_and_unlock(
           [m EXCEPT !.runner_pending = FALSE, !.at = "idle"])
    ELSE LET c == Head(m.callbacks)
             x == c[2]
             alive == IF c[1] = "w" THEN m.w[x].mem = "live"
                      ELSE m.w[x].e = "live" /\ m.w[x].mem = "live"
             m1 == gensio_mdns_deref(
                     [m EXCEPT !.callbacks = Tail(m.callbacks),
                               !.inq = m.inq \ {c}])
         IN  IF ~alive /\ ~intact THEN [m EXCEPT !.uaf = TRUE]
             ELSE IF m1.assertFail THEN m1
             ELSE IF c[1] = "w" /\ m1.w[x].remove
             THEN IF m1.w[x].remove_done # 0
                  THEN [m1 EXCEPT !.w[x].rdCalls =
                                     IF m1.w[x].rdCalls < 2
                                     THEN m1.w[x].rdCalls + 1 ELSE 2,
                                  !.at = "remove_done", !.cur = c]
                  ELSE mdns_runner_loop(watch_free(m1, x), intact)
             ELSE IF c[1] = "e"
             THEN IF ~m1.freed /\ ~m1.w[x].removed
                  THEN [m1 EXCEPT !.at = "watch_cb", !.cur = c]
                  ELSE mdns_runner_loop(
                         IF m1.w[x].e_state = "DATA_GONE"
                         THEN result_free(m1, x) ELSE m1, intact)
             ELSE IF m1.w[x].all_for_now
             THEN [m1 EXCEPT !.w[x].all_for_now = FALSE,
                             !.at = "afn_cb", !.cur = c]
             ELSE mdns_runner_loop(m1, intact)

\* mdns_runner after a callback has returned: lock, finish the entry, go on.
mdns_runner_return(m, intact) ==
    LET x == m.cur[2]
        m1 == [m EXCEPT !.at = "idle"]
    IN  IF m.at = "remove_done"
        THEN mdns_runner_loop(watch_free(m1, x), intact)
        ELSE IF m.at = "watch_cb"
        THEN IF m1.w[x].e # "live"
             THEN [m1 EXCEPT !.uaf = TRUE]
             ELSE mdns_runner_loop(
                    IF m1.w[x].e_state = "DATA_GONE"
                    THEN result_free(m1, x) ELSE m1, intact)
        ELSE mdns_runner_loop(m1, intact)

\* mdns_client_callback reporting AVAHI_CLIENT_S_RUNNING: the watches in the
\* list get their browsers, S still to come.
RECURSIVE mdns_client_callback(_, _)
mdns_client_callback(m, S) ==
    IF S = {} THEN [m EXCEPT !.running = TRUE]
    ELSE mdns_client_callback(
           IF m.w[First(S)].listed
           THEN avahi_add_watch(m, First(S), TRUE) ELSE m,
           S \ {First(S)})

\* mdns_service_type_callback of watch x: AVAHI_BROWSER_NEW of a matching
\* type, AVAHI_BROWSER_REMOVE of it, AVAHI_BROWSER_ALL_FOR_NOW.  On a watch
\* already freed it works on freed memory: the run ends, or, with intact,
\* the memory still holds the watch as it was.
mdns_service_type_callback(m, x, event, intact) ==
    IF m.w[x].mem # "live" /\ ~intact THEN [m EXCEPT !.uaf = TRUE]
    ELSE IF event = "ALL_FOR_NOW" THEN browser_finish_one(m, x)
    ELSE IF event = "REMOVE"
    THEN IF m.w[x].b
         THEN [(IF m.w[x].r THEN resolver_remove(m, x) ELSE m)
                  EXCEPT !.w[x].b = FALSE]
         ELSE m
    ELSE IF m.w[x].b THEN m
    ELSE [m EXCEPT !.w[x].b = TRUE,
                   !.w[x].service_calls_pending =
                       m.w[x].service_calls_pending + 1]

\* mdns_service_browser_callback of the browser of watch x.
mdns_service_browser_callback(m, x, event) ==
    IF m.w[x].mem # "live" THEN [m EXCEPT !.uaf = TRUE]
    ELSE IF event = "ALL_FOR_NOW" THEN browser_finish_one(m, x)
    ELSE IF event = "REMOVE"
    THEN IF m.w[x].r THEN resolver_remove(m, x) ELSE m
    ELSE IF m.w[x].r THEN m
    ELSE [m EXCEPT !.w[x].r = TRUE]

\* ------------------------------------------------------ the mdns actions
\* The user calls while the structure is there and free_done has not told
\* it otherwise; the Avahi client calls back, with the lock held, while it
\* is there.
MdnsAddWatch ==
    /\ ~mdns.gone /\ mdns.fdCalls = 0 /\ ~mdns.freed
    /\ \E x \in Watches, ok \in BOOLEAN :
          /\ mdns.w[x].mem = "none"
          /\ CommitMdns(gensio_mdns_add_watch(mdns, x, ok))

\* The user removes a watch it holds: one that add_watch gave it and whose
\* remove_done it has not seen yet.
MdnsRemoveWatch ==
    /\ ~mdns.gone /\ mdns.fdCalls = 0
    /\ \E x \in Watches, withDone \in BOOLEAN :
          /\ mdns.w[x].mem = "live"
          /\ mdns.w[x].rdCalls = 0
          /\ mdns.w[x].nrm < MaxFreeReq
          /\ LET n == mdns.w[x].nrm + 1
             IN  CommitMdns(gensio_mdns_remove_watch(
                              [mdns EXCEPT !.w[x].nrm = n], x,
                              IF withDone THEN n ELSE 0))

MdnsFree ==
    /\ ~mdns.gone /\ mdns.fdCalls = 0
    /\ mdns.nfree < MaxFreeReq
    /\ \E withDone \in BOOLEAN :
          LET n == mdns.nfree + 1
          IN  CommitMdns(gensio_free_mdns([mdns EXCEPT !.nfree = n],
                                          IF withDone THEN n ELSE 0))

\* mdns_runner from its entry; a runner on a structure that is gone is a
\* use after free.
MdnsRunner ==
    /\ mdns.run /\ mdns.at = "idle"
    /\ \E intact \in BOOLEAN :
          CommitMdns(IF mdns.gone
                     THEN [mdns EXCEPT !.uaf = TRUE, !.run = FALSE]
                     ELSE mdns_runner_loop([mdns EXCEPT !.run = FALSE],
                                           intact))

MdnsRunnerReturn ==
    /\ mdns.at # "idle"
    /\ \E intact \in BOOLEAN :
          CommitMdns(mdns_runner_return(mdns, intact))

\* gensio_mdns_poll_freed: free_done is called and the structure released.
MdnsPollFreed ==
    /\ mdns.poll_freeing
    /\ CommitMdns([mdns EXCEPT
          !.poll_freeing = FALSE, !.gone = TRUE,
          !.fdCalls = IF mdns.free_done # 0
                      THEN (IF mdns.fdCalls < 2 THEN mdns.fdCalls + 1 ELSE 2)
                      ELSE mdns.fdCalls])

MdnsClientRunning ==
    /\ mdns.ac /\ ~mdns.gone /\ ~mdns.running
    /\ CommitMdns(mdns_client_callback(mdns, Watches))

\* The type browser of a watch reports; it does so once for each kind of
\* event while the client holds the browser.
MdnsTypeEvent ==
    /\ mdns.ac /\ ~mdns.gone
    /\ \E x \in Watches, event \in {"NEW", "REMOVE", "ALL_FOR_NOW"},
          intact \in BOOLEAN :
          /\ mdns.w[x].browser
          /\ event \notin mdns.w[x].tseen
          /\ CommitMdns(mdns_service_type_callback(
                          [mdns EXCEPT !.w[x].tseen = @ \cup {event}], x, event,
                          intact))

MdnsBrowserEvent ==
    /\ mdns.ac /\ ~mdns.gone
    /\ \E x \in Watches, event \in {"NEW", "REMOVE", "ALL_FOR_NOW"} :
          /\ mdns.w[x].b
          /\ event \notin mdns.w[x].bseen
          /\ CommitMdns(mdns_service_browser_callback(
                          [mdns EXCEPT !.w[x].bseen = @ \cup {event}], x, event))

\* mdns_service_resolver_callback of the resolver of watch x,
\* AVAHI_RESOLVER_FOUND with a matching host: a result is queued.
MdnsResolverFound ==
    /\ mdns.ac /\ ~mdns.gone
    /\ \E x \in Watches :
          /\ mdns.w[x].r
          /\ mdns.w[x].e = "none"
          /\ CommitMdns(IF mdns.w[x].mem # "live"
                        THEN [mdns EXCEPT !.uaf = TRUE]
                        ELSE enqueue_callback(
                               [mdns EXCEPT !.w[x].e = "live",
                                            !.w[x].e_listed = TRUE,
                                            !.w[x].e_state = "NEW_DATA"],
                               <<"e", x>>))

NextMdns ==
    \/ MdnsAddWatch \/ MdnsRemoveWatch \/ MdnsFree
    \/ MdnsRunner \/ MdnsRunnerReturn \/ MdnsPollFreed
    \/ MdnsClientRunning \/ MdnsTypeEvent \/ MdnsBrowserEvent
    \/ MdnsResolverFound

SpecMdns == InitMdns /\ [][NextMdns]_vars

\* The same with what the OS-Funcs and the user guarantee: a scheduled
\* runner runs, a callback it makes returns, and the poll reports that it is
\* free.
SpecMdnsFair ==
    /\ SpecMdns
    /\ WF_vars(MdnsRunner) /\ WF_vars(MdnsRunnerReturn)
    /\ WF_vars(MdnsPollFreed)

\* ============================== the Avahi poll bridge (avahi_watcher.c)
\* struct gensio_avahi_userdata with one AvahiTimeout t and one AvahiWatch w.
\* Avahi calls the poll functions with the bridge's lock held, from its own
\* entry points or from inside a callback, and every handler takes the lock:
\* a step is one handler or one call.
\*   t.tm   the OS timer: "idle", "running" or "stopping" (a stop with done
\*          was accepted and its done callback is owed)
\*   t.hp   the timer has expired and gensio_avahi_timeout is owed
\*   t.at   the time the OS timer was last started with
\*   t.lu   what the last update of the timeout supplied: "time" or "null"
\*   op     the call into the bridge that this step made last
\*   cb     the callback of Avahi that this step invoked
\*
\* alloc_gensio_avahi_poll: one reference, nothing stopped; no timeout and
\* no watch yet.
InitAvahi ==
    /\ mt = FALSE
    /\ fdll = InitLL(NoFd, FALSE, FALSE, FALSE)
    /\ os = InitOS(NoFd)
    /\ lock = "none"
    /\ pc = [t \in Threads |-> "idle"]
    /\ h = InitH(NoFd)
    /\ ioinfo = NoIoinfo
    /\ mdns = NoMdns
    /\ avahi =
         [refcount |-> 1, stopped |-> FALSE, stop_done |-> 0,
          runner |-> FALSE, gone |-> FALSE, sdCalls |-> 0, npf |-> 0,
          t |-> [mem |-> "none", stopped |-> FALSE, in_update |-> FALSE,
                 freed |-> FALSE, tv |-> 0, tm |-> "idle", hp |-> FALSE,
                 at |-> 0, lu |-> "none"],
          w |-> [mem |-> "none", freed |-> FALSE, handlers |-> FALSE,
                 clr |-> FALSE],
          op |-> "none", cb |-> "none", startBusy |-> FALSE,
          stopBusy |-> FALSE, uaf |-> FALSE]

\* A use of freed memory ends the run.  cb names the callback of Avahi that
\* the step invoked.
CommitAvahi(a, cb) ==
    /\ ~avahi.uaf
    /\ avahi' = [a EXCEPT !.cb = cb]
    /\ UNCHANGED <<mt, fdll, os, lock, pc, h, ioinfo, mdns>>

\* gensio_avahi_poll_deref: the last reference schedules the runner.
gensio_avahi_poll_deref(a) ==
    IF a.refcount = 0
    THEN [a EXCEPT !.uaf = TRUE]
    ELSE [a EXCEPT !.refcount = a.refcount - 1,
                   !.runner = a.runner \/ a.refcount = 1]

\* What stop_timer_with_done can answer, 0 making the timer "stopping":
\* GE_INUSE while a done callback is
\* owed, 0 for a running timer (the done callback follows), GE_TIMEDOUT for
\* one that is not running; for a timer that has expired and whose handler
\* has not returned (firing: the call comes from inside the handler) it is
\* either GE_TIMEDOUT or 0 with the done callback after the handler.
StopAnswers(a, firing) ==
    IF a.t.tm = "stopping" THEN {"GE_INUSE"}
    ELSE IF a.t.tm = "running" THEN {"OK"}
    ELSE IF a.t.hp \/ firing THEN {"GE_TIMEDOUT", "OK"}
    ELSE {"GE_TIMEDOUT"}

\* do_timer_start: start_timer with at->tv.
do_timer_start(a) ==
    [a EXCEPT !.t.tm = IF a.t.tm = "idle" THEN "running" ELSE a.t.tm,
              !.t.at = IF a.t.tm = "idle" THEN a.t.tv ELSE a.t.at,
              !.startBusy = a.startBusy \/ a.t.tm # "idle"]

\* A stopped handler that starts the timer again whether or not the timeout
\* is stopped.
i_gensio_avahi_timer_stopped_restart(a) ==
    IF a.t.freed
    THEN gensio_avahi_poll_deref([a EXCEPT !.t.mem = "freed", !.t.hp = FALSE])
    ELSE IF a.t.in_update
         THEN do_timer_start([a EXCEPT !.t.in_update = FALSE])
         ELSE a

\* i_gensio_avahi_timer_stopped: the timeout is freed, or started again if
\* an update asked for the stop and the timeout is not stopped.
i_gensio_avahi_timer_stopped(a) ==
    IF a.t.freed
    THEN gensio_avahi_poll_deref([a EXCEPT !.t.mem = "freed", !.t.hp = FALSE])
    ELSE IF a.t.in_update
         THEN LET a1 == [a EXCEPT !.t.in_update = FALSE]
              IN  IF ~a1.t.stopped THEN do_timer_start(a1) ELSE a1
         ELSE a

\* gensio_avahi_timeout_update; tv = 0 stands for a NULL tv.
gensio_avahi_timeout_update(a, tv, res) ==
    LET a0 == [a EXCEPT !.op = IF tv # 0 THEN "update" ELSE "update_null",
                        !.t.lu = IF tv # 0 THEN "time" ELSE "null"]
    IN  IF a0.t.mem # "live" THEN [a0 EXCEPT !.uaf = TRUE]
        ELSE IF tv = 0 /\ a0.t.stopped THEN a0
        ELSE LET a1 == IF tv # 0
                       THEN [a0 EXCEPT !.t.tv = tv, !.t.stopped = FALSE]
                       ELSE [a0 EXCEPT !.t.stopped = TRUE]
             IN  IF a1.t.in_update THEN a1
                 ELSE LET a2 == [a1 EXCEPT !.t.in_update = TRUE,
                                           !.t.tm = IF res = "OK"
                                                    THEN "stopping" ELSE @,
                                           !.stopBusy = a1.stopBusy
                                                          \/ res = "GE_INUSE"]
                      IN  IF res = "GE_TIMEDOUT"
                          THEN i_gensio_avahi_timer_stopped(a2) ELSE a2

\* gensio_avahi_timeout_free.  With GE_TIMEDOUT the timer is freed, which
\* takes an owed handler with it, and the AvahiTimeout itself is left.
gensio_avahi_timeout_free(a, res) ==
    LET a0 == [a EXCEPT !.op = "free"]
    IN  IF a0.t.mem # "live" THEN [a0 EXCEPT !.uaf = TRUE]
        ELSE IF a0.t.freed THEN a0
        ELSE LET a1 == [a0 EXCEPT !.t.freed = TRUE, !.t.stopped = TRUE,
                                  !.t.tm = IF res = "OK" THEN "stopping" ELSE @]
             IN  IF res = "GE_TIMEDOUT"
                 THEN gensio_avahi_poll_deref([a1 EXCEPT !.t.hp = FALSE])
                 ELSE a1

\* What one call of Avahi on the timeout can leave: an update with a time or
\* without, or the free.
TimeoutCalls(a, firing) ==
    {gensio_avahi_timeout_update(a, tv, res) :
        tv \in 0..MaxTv, res \in StopAnswers(a, firing)}
    \cup {gensio_avahi_timeout_free(a, res) : res \in StopAnswers(a, firing)}

\* gensio_avahi_timeout_new, the allocations succeeding.
gensio_avahi_timeout_new ==
    /\ avahi.t.mem = "none" /\ ~avahi.stopped
    /\ \E tv \in 0..MaxTv :
          LET a1 == [avahi EXCEPT !.t.mem = "live", !.t.stopped = TRUE,
                                  !.refcount = avahi.refcount + 1]
          IN  CommitAvahi(gensio_avahi_timeout_update(a1, tv, "GE_TIMEDOUT"),
                          "none")

\* Avahi updates or frees the timeout from one of its entry points.
AvTimeoutCall ==
    /\ avahi.t.mem = "live" /\ ~avahi.t.freed /\ ~avahi.gone
    /\ \E b \in TimeoutCalls(avahi, FALSE) : CommitAvahi(b, "none")

\* The OS timer expires: its handler is owed.
AvTimerExpire ==
    /\ avahi.t.tm = "running"
    /\ CommitAvahi([avahi EXCEPT !.t.tm = "idle", !.t.hp = TRUE,
                                 !.op = "none"], "none")

\* gensio_avahi_timeout: the callback runs unless the timeout is stopped,
\* and may call back into the bridge.
gensio_avahi_timeout ==
    /\ avahi.t.hp
    /\ LET a1 == [avahi EXCEPT !.t.hp = FALSE, !.op = "none"]
       IN  IF a1.gone \/ a1.t.mem # "live"
           THEN CommitAvahi([a1 EXCEPT !.uaf = TRUE], "none")
           ELSE IF a1.t.stopped
                THEN CommitAvahi(a1, "none")
                ELSE \E b \in {a1} \cup TimeoutCalls(a1, TRUE) :
                        CommitAvahi(b, "timeout")

\* gensio_avahi_timer_stopped: the done callback of a stop, after the
\* handler if one was owed.
gensio_avahi_timer_stopped ==
    /\ avahi.t.tm = "stopping" /\ ~avahi.t.hp
    /\ LET a1 == [avahi EXCEPT !.t.tm = "idle", !.op = "none"]
       IN  IF a1.gone \/ a1.t.mem # "live"
           THEN CommitAvahi([a1 EXCEPT !.uaf = TRUE], "none")
           ELSE CommitAvahi(i_gensio_avahi_timer_stopped(a1), "none")

\* gensio_avahi_watch_new, the allocation and set_fd_handlers succeeding.
gensio_avahi_watch_new ==
    /\ avahi.w.mem = "none" /\ ~avahi.stopped
    /\ CommitAvahi([avahi EXCEPT !.w.mem = "live", !.w.handlers = TRUE,
                                 !.refcount = avahi.refcount + 1,
                                 !.op = "watch_new"], "none")

\* gensio_avahi_watch_free: clear_fd_handlers, the cleared report is owed.
gensio_avahi_watch_free ==
    /\ avahi.w.mem = "live" /\ ~avahi.w.freed /\ ~avahi.gone
    /\ CommitAvahi([avahi EXCEPT !.w.freed = TRUE, !.w.handlers = FALSE,
                                 !.w.clr = TRUE, !.op = "watch_free"], "none")

\* gensio_avahi_read_handler (the write and exception handlers are alike):
\* the callback runs unless the watch is freed, and may free the watch.
gensio_avahi_read_handler ==
    /\ avahi.w.handlers
    /\ LET a1 == [avahi EXCEPT !.op = "none"]
       IN  IF a1.gone \/ a1.w.mem # "live"
           THEN CommitAvahi([a1 EXCEPT !.uaf = TRUE], "none")
           ELSE IF a1.w.freed
                THEN CommitAvahi(a1, "none")
                ELSE \E b \in {a1, [a1 EXCEPT !.w.freed = TRUE,
                                                !.w.handlers = FALSE,
                                                !.w.clr = TRUE,
                                                !.op = "watch_free"]} :
                        CommitAvahi(b, "watch")

\* gensio_avahi_cleared_handler: the watch is freed, its reference dropped.
gensio_avahi_cleared_handler ==
    /\ avahi.w.clr
    /\ IF avahi.gone
       THEN CommitAvahi([avahi EXCEPT !.uaf = TRUE], "none")
       ELSE CommitAvahi(gensio_avahi_poll_deref(
                [avahi EXCEPT !.w.clr = FALSE, !.w.mem = "freed",
                              !.op = "none"]), "none")

\* A poll_free that takes the done of every call and drops a reference
\* each time.
gensio_avahi_poll_free_again ==
    /\ ~avahi.gone /\ avahi.npf < MaxFreeReq
    /\ CommitAvahi(gensio_avahi_poll_deref(
                       [avahi EXCEPT !.npf = avahi.npf + 1,
                                     !.op = "poll_free",
                                     !.stopped = TRUE,
                                     !.stop_done = avahi.npf + 1]), "none")

\* gensio_avahi_poll_free, with the done of the call numbered npf + 1.
gensio_avahi_poll_free ==
    /\ ~avahi.gone /\ avahi.npf < MaxFreeReq
    /\ LET a1 == [avahi EXCEPT !.npf = avahi.npf + 1, !.op = "poll_free"]
       IN  IF a1.stopped
           THEN CommitAvahi(a1, "none")
           ELSE CommitAvahi(gensio_avahi_poll_deref(
                               [a1 EXCEPT !.stopped = TRUE,
                                          !.stop_done = a1.npf]), "none")

\* gensio_avahi_poll_runner: stop_done, then everything is freed.
gensio_avahi_poll_runner ==
    /\ avahi.runner /\ ~avahi.gone
    /\ CommitAvahi([avahi EXCEPT !.runner = FALSE, !.gone = TRUE,
                                 !.op = "none",
                                 !.sdCalls = IF avahi.stop_done # 0
                                             THEN avahi.sdCalls + 1
                                             ELSE avahi.sdCalls],
                   IF avahi.stop_done # 0 THEN "stop_done" ELSE "none")

NextAvahi ==
    \/ gensio_avahi_timeout_new \/ AvTimeoutCall \/ AvTimerExpire
    \/ gensio_avahi_timeout \/ gensio_avahi_timer_stopped
    \/ gensio_avahi_watch_new \/ gensio_avahi_watch_free
    \/ gensio_avahi_read_handler \/ gensio_avahi_cleared_handler
    \/ gensio_avahi_poll_free \/ gensio_avahi_poll_runner

SpecAvahi == InitAvahi /\ [][NextAvahi]_vars

\* ============================================================ properties
\* The labels at which a thread is inside an up-call of the upper layer.
CbLabels == InRead \cup {"wr_cb", "wr_open_cb", "cl_open_cb", "close_cb"}

\* Nothing is left to run: no handler is under way and the OS-Funcs owe no
\* cleared report, no timer and no deferred run.
Quiet ==
    /\ \A t \in Threads : pc[t] = "idle"
    /\ os.clr = {} /\ ~os.timer /\ ~os.runner

\* This step invokes the READ up-call: a thread enters it, or is in it again
\* with the rest of what it was offered.
ReadInvoked ==
    \E t \in Threads :
        /\ pc'[t] \in InRead
        /\ (pc[t] \notin InRead \/ fdll'.read_data_len < fdll.read_data_len)

ReadOnlyWhenOpen ==
    [][ReadInvoked => (fdll'.state = "FD_OPEN" /\ h'.everEnabled)]_vars

\* C3: once close_done has been invoked, no READ up-call is made in that
\* open-close cycle.
NoReadAfterCloseDone ==
    [][ReadInvoked => ~h'.cdSinceOpen]_vars

\* C4: no READ up-call is made while the open_done of an fd_open that
\* answered GE_INPROGRESS is still owed.
NoReadBeforeOpenDone ==
    [][ReadInvoked => ~OdPending(h')]_vars

\* C5: the bytes the consumer has accepted, followed by the bytes buffered
\* and not yet accepted, are exactly the bytes read from the handles, in
\* the order they were read: nothing is lost, repeated or reordered.
ReadInOrder ==
    h.stream = h.consumed \o Offered(fdll)

\* A READ up-call offers again the rest of a buffer that was taken in part.
ReadInOrderWitness ==
    /\ \E t \in Threads : pc[t] = "cb"
    /\ fdll.read_data_pos > 0
    /\ fdll.read_data_len > 0
    /\ Len(h.consumed) > 0

\* C6: never are two READ up-calls under way at once, a READ up-call or a
\* scheduled deferred delivery holds in_read, and a read enable that finds
\* data buffered leaves the delivery to the deferred runner.
NoConcurrentRead ==
    /\ ~(pc["ev"] \in InRead /\ pc["df"] \in InRead)
    /\ \A t \in Threads : pc[t] \in InRead => fdll.in_read
    /\ fdll.deferred_read => (fdll.in_read /\ fdll.deferred_op_pending)

\* The deferred runner is delivering while the read watcher is armed.
NoConcurrentReadWitness ==
    /\ pc["df"] \in InRead
    /\ pc["ev"] = "idle"
    /\ fdll.fd \in os.rd

\* C7: while a thread is in an up-call (READ, WRITE_READY, open_done,
\* close_done) it does not hold the lock.
NoCallbackUnderLock ==
    \A t \in Threads : pc[t] \in CbLabels => lock # t

\* Both threads are in an up-call.
NoCallbackUnderLockWitness ==
    /\ pc["ev"] \in CbLabels
    /\ pc["df"] \in CbLabels

\* C8: during every up-call the structure is alive with a reference count
\* of at least 1, the count never underflows, it reaches zero once, the
\* structure is freed with the lock released and never touched afterwards.
RefDiscipline ==
    /\ (\E t \in Threads : pc[t] \in CbLabels) =>
           (fdll.refcount >= 1 /\ ~fdll.freed)
    /\ ~h.underflow
    /\ h.freeCount <= 1
    /\ ~h.freeLocked
    /\ ~h.uaf

\* The steps of one open-close cycle, in order, steps skipped or not.
MonotoneSteps ==
    {<<"FD_CLOSED", "FD_IN_OPEN">>, <<"FD_CLOSED", "FD_OPEN">>,
     <<"FD_IN_OPEN", "FD_OPEN">>, <<"FD_IN_OPEN", "FD_IN_CLOSE">>,
     <<"FD_IN_OPEN", "FD_CLOSED">>, <<"FD_OPEN", "FD_IN_CLOSE">>,
     <<"FD_OPEN", "FD_CLOSED">>, <<"FD_IN_CLOSE", "FD_CLOSED">>}

StateStepOK ==
    /\ fdll'.state \in FdStates
    /\ (fdll'.state # fdll.state => <<fdll.state, fdll'.state>> \in MonotoneSteps)

\* C9: the state is always one of the four, and it only advances in the
\* order CLOSED, IN_OPEN, OPEN, IN_CLOSE, CLOSED: never from IN_CLOSE back to
\* IN_OPEN or OPEN, never from OPEN back to IN_OPEN.
StateMonotone ==
    [][StateStepOK]_vars

\* This step is an fd_open issued while the layer is not closed.
OpenMidCycle ==
    h'.nopen = h.nopen + 1 /\ fdll.state # "FD_CLOSED"

\* C10: an fd_open issued while the layer is opening, open or closing
\* leaves the state, the handle and the recorded open_done as they were.
SecondOpenRejected ==
    [][OpenMidCycle => (/\ fdll'.state = fdll.state
                        /\ fdll'.fd = fdll.fd
                        /\ fdll'.open_done = fdll.open_done
                        /\ h'.nfd = h.nfd)]_vars

\* This step is an fd_close that returns GE_NOTREADY: the layer is closed or
\* closing.
CloseRefused ==
    h'.nclose = h.nclose + 1 /\ fdll.state \notin {"FD_OPEN", "FD_IN_OPEN"}

CloseRefusedStepOK ==
    /\ CloseRefused => (/\ fdll' = fdll
                        /\ os' = os
                        /\ h'.closeOK = h.closeOK
                        /\ h'.cdCalls = h.cdCalls)
    /\ \A i \in 1..MaxCloseReq :
          (i \notin h'.closeOK) => h'.cdCalls[i] = 0

CloseInOpen ==
    h'.nclose = h.nclose + 1 /\ fdll.state = "FD_IN_OPEN"

\* This step invokes the open_done of an open that a close has cancelled:
\* the open_done is still recorded and so is the close_done of the close.
CancelledOpenDone ==
    /\ fdll.open_done # 0 /\ fdll.close_done # 0
    /\ h'.odCalls[fdll.open_done] # h.odCalls[fdll.open_done]

\* This step invokes a close_done.
CloseDoneInvoked == h'.cdCalls # h.cdCalls

CloseCancelsOpenStepOK ==
    /\ CloseInOpen => (/\ fdll'.state = "FD_IN_CLOSE"
                       /\ fdll'.open_done = fdll.open_done
                       /\ fdll.fd \notin os'.handlers)
    /\ CancelledOpenDone => (/\ h'.odCalls[fdll.open_done] = 1
                             /\ h'.odErr # "OK"
                             /\ h'.cdCalls[fdll.close_done] = 0)
    /\ CloseDoneInvoked => fdll.open_done = 0

\* C12: an fd_close accepted while the open is in progress (FD_IN_OPEN)
\* aborts the open; the open_done of the cancelled open is invoked once,
\* with an error and never with 0, and no close_done is invoked while an
\* open_done is still recorded.
CloseCancelsOpen ==
    [][CloseCancelsOpenStepOK]_vars

\* The open_done of an open that answered GE_INPROGRESS is owed and the
\* layer can no longer come to invoke it: no handler is under way, the layer
\* is not waiting for the connect on a handle with handlers, and no cleared
\* report and no close timer is owed.
OpenDoneLost ==
    /\ OdPending(h) /\ ~h.disabled
    /\ pc["ev"] = "idle"
    /\ ~(fdll.state = "FD_IN_OPEN" /\ fdll.fd \in os.handlers)
    /\ os.clr = {} /\ ~os.timer

\* No open_done is invoked twice, and none of an fd_open that did not answer
\* GE_INPROGRESS.
OpenDoneOwedOnce ==
    \A i \in 1..MaxOpens :
        /\ h.odCalls[i] <= 1
        /\ i \notin h.openIP => h.odCalls[i] = 0

\* This step is an fd_open.
OpenStep == h'.nopen = h.nopen + 1

\* This step is an fd_open that answers 0: sub_open handed out a handle, the
\* handle was kept and the answer is not GE_INPROGRESS.
OpenAnsweredZero ==
    /\ OpenStep /\ h'.openIP = h.openIP
    /\ h'.nfd # h.nfd /\ h'.closes = h.closes

\* This step is an fd_open that answers an error: sub_open handed out no
\* handle, or the handle was closed again.
OpenAnsweredError ==
    /\ OpenStep /\ h'.openIP = h.openIP
    /\ h'.nfd = h.nfd \/ h'.closes # h.closes

OpenStepOK ==
    /\ OpenAnsweredZero =>
           (/\ fdll'.state = "FD_OPEN"
            /\ fdll'.open_done = 0)
    /\ OpenAnsweredError =>
           (/\ fdll'.state = "FD_CLOSED"
            /\ fdll'.fd = NoFd
            /\ fdll'.open_done = 0
            /\ os'.handlers = {})

\* C13: an fd_open that answers GE_INPROGRESS has its open_done invoked
\* once: never twice, and never left owed with nothing that could still
\* invoke it; an fd_open that answers 0 leaves the layer FD_OPEN and an
\* fd_open that answers an error leaves it FD_CLOSED without a handle and
\* without handlers, and the open_done of neither is ever invoked.
OpenDoneContract ==
    [][OpenStepOK /\ OpenDoneOwedOnce' /\ ~OpenDoneLost']_vars

\* This step starts an up-call: READ, WRITE_READY, open_done or close_done.
UpcallStarted ==
    \/ ReadInvoked
    \/ pc'["ev"] = "wr_cb" /\ pc["ev"] # "wr_cb"
    \/ h'.odCalls # h.odCalls
    \/ h'.cdCalls # h.cdCalls

NoUpcallOnceDisabled == h.disabled => ~UpcallStarted

\* C14: once fd_disable has returned, no READ, WRITE_READY, open_done or
\* close_done up-call is started, whatever was pending when it was called.
NoEventAfterDisable ==
    [][NoUpcallOnceDisabled]_vars

\* The handles handed out so far.
HandedOut == 1..h.nfd

\* A handle that was handed out and not closed is out of the layer's reach:
\* the layer no longer holds it, or it holds it closed or closing with
\* nothing left to run.
HandleLeaked ==
    \E f \in HandedOut :
        /\ h.closes[f] = 0
        /\ \/ fdll.fd # f
           \/ Quiet /\ fdll.state \in {"FD_CLOSED", "FD_IN_CLOSE"}

\* This step runs fd_finish_cleared: it takes a cleared report or the close
\* timer and does not start the timer again.
InFinishCleared ==
    /\ pc["ev"] = "idle"
    /\ os'.clr # os.clr \/ (os.timer /\ ~os'.timer)
    /\ ~os'.timer

HandleCloseStepOK ==
    /\ h'.closes # h.closes => InFinishCleared
    /\ \A f \in FDs : h'.closes[f] <= 1
    /\ ~HandleLeaked'

\* C15: a handle is closed only by fd_finish_cleared, on the cleared report
\* or the close timer that follows it; no handle is closed twice and no
\* handle that was handed out is left unclosed out of the layer's reach.
HandleClosedOnce ==
    [][HandleCloseStepOK]_vars

\* A thread is inside a READ up-call.
InReadUpcall == \E t \in Threads : pc[t] \in InRead

\* This step arms the read watcher of a handle.
ReadArmed == \E f \in FDs : f \in os'.rd /\ f \notin os.rd

ReadWatcherStepOK ==
    /\ InReadUpcall' => (os'.rd = {} /\ os'.ex = {})
    /\ ReadArmed => (fdll'.read_enabled /\ fdll'.state = "FD_OPEN")

\* C16: while a READ up-call is executing no read watcher and no exception
\* watcher is armed, whatever the upper layer calls from inside it, and the
\* read watcher is armed only with read enabled and the state FD_OPEN.
ReadDisarmedInUpcall ==
    [][ReadWatcherStepOK]_vars

OobWire == SelectSeq(ioinfo.wire, LAMBDA e : e[1] = "oob")

\* The bytes of the records 1..r, record by record, in the order in which
\* ioinfo_sendoob was given them.
RECURSIVE AllOob(_)
AllOob(r) ==
    IF r = 0 THEN <<>>
    ELSE AllOob(r - 1) \o [k \in 1..ioinfo.origlen[r] |-> <<"oob", r, k>>]

\* The queue as the next pointers give it, from record r on, at most n long.
RECURSIVE OobChain(_, _)
OobChain(r, n) ==
    IF r = NoOob \/ n = 0 THEN <<>>
    ELSE <<r>> \o OobChain(ioinfo.next[r], n - 1)

OobQueue == OobChain(ioinfo.oob_head, MaxOob + 1)

\* C18: the queue holds the records not yet dequeued in the order they were
\* handed over, the newest at the tail; what has been written of the
\* records is a prefix of their bytes laid end to end in that order, so no
\* byte of a record is written before the last byte of the one before it;
\* and the send_done callbacks are invoked in that order.
OobFifo ==
    /\ OobQueue = [k \in 1..Len(OobQueue) |-> ioinfo.nsent - Len(OobQueue) + k]
    /\ ioinfo.oob_tail = IF OobQueue = <<>> THEN NoOob ELSE ioinfo.nsent
    /\ Len(OobWire) <= Len(AllOob(ioinfo.nsent))
    /\ OobWire = SubSeq(AllOob(ioinfo.nsent), 1, Len(OobWire))
    /\ \A a, b \in 1..Len(ioinfo.done) :
          a < b => ioinfo.done[a] < ioinfo.done[b]

\* Two records are queued, the head written in part by a short write.
OobFifoWitness ==
    /\ OobQueue = <<1, 2>>
    /\ ioinfo.buf[1] > 0 /\ ioinfo.len[1] > 0
    /\ ioinfo.at = "idle"

\* What was written of record r, and how often its send_done was invoked.
OobWritten(r) == SelectSeq(ioinfo.wire, LAMBDA e : e[2] = r)

SendDoneCalls(r) ==
    Cardinality({k \in 1..Len(ioinfo.done) : ioinfo.done[k] = r})

InOobQueue(r) == \E k \in 1..Len(OobQueue) : OobQueue[k] = r

\* C19: of every record handed over, the bytes written are its first bytes,
\* each once and in order, all under the tag "oob"; while it is written in
\* part it is still the head of the queue, with buf moved forward and len
\* cut by what was accepted; it has left the queue only with all its bytes
\* written; and its send_done is invoked at most once, not before its last
\* byte is accepted and, if it has one, in the very event that accepts it.
OobRecordInPlace ==
    \A r \in 1..ioinfo.nsent :
        LET w == Len(OobWritten(r))
        IN  /\ w <= ioinfo.origlen[r]
            /\ OobWritten(r) = [k \in 1..w |-> <<"oob", r, k>>]
            /\ w < ioinfo.origlen[r] =>
                  (/\ InOobQueue(r)
                   /\ ioinfo.buf[r] = w
                   /\ ioinfo.len[r] = ioinfo.origlen[r] - w)
            /\ (0 < w /\ w < ioinfo.origlen[r]) => ioinfo.oob_head = r
            /\ SendDoneCalls(r) <= 1
            /\ SendDoneCalls(r) = 1 => w = ioinfo.origlen[r]
            /\ (w = ioinfo.origlen[r] /\ ioinfo.send_done[r]) =>
                  SendDoneCalls(r) = 1
            /\ (w = ioinfo.origlen[r] /\ InOobQueue(r)) =>
                  (ioinfo.at = "send_done" /\ ioinfo.oob = r)

\* A record was written in two parts, has had its send_done and has left
\* the queue.
OobRecordWitness ==
    /\ ioinfo.origlen[1] = 2 /\ ioinfo.buf[1] = 1
    /\ ioinfo.done = <<1>>
    /\ ~InOobQueue(1)

\* C20: on the wire of the endpoint no forwarded byte lies between two bytes
\* of one OOB record.
OobNotInterleaved ==
    \A a, b, c \in 1..Len(ioinfo.wire) :
        (/\ a < b /\ b < c
         /\ ioinfo.wire[a][1] = "oob" /\ ioinfo.wire[c][1] = "oob"
         /\ ioinfo.wire[a][2] = ioinfo.wire[c][2])
            => ioinfo.wire[b][1] = "oob"

\* This step is a gensio_free_mdns on a structure already freed: it returns
\* GE_INUSE.
SecondFree ==
    /\ mdns'.nfree = mdns.nfree + 1
    /\ mdns.freed

\* This step is a gensio_mdns_remove_watch on a watch already removed: it
\* returns GE_INUSE.
SecondRemove(x) ==
    /\ mdns'.w[x].nrm = mdns.w[x].nrm + 1
    /\ mdns.w[x].removed

SecondCallStepOK ==
    /\ SecondFree => mdns' = [mdns EXCEPT !.nfree = mdns.nfree + 1]
    /\ \A x \in Watches :
          SecondRemove(x) =>
              mdns' = [mdns EXCEPT !.w[x].nrm = mdns.w[x].nrm + 1]

\* C21: a gensio_free_mdns on an mdns already freed, and a
\* gensio_mdns_remove_watch on a watch already removed, change nothing: the
\* done callback and data of the first call stay recorded, nothing is
\* queued, no reference is taken or dropped, no runner is scheduled.
SecondCallNoOp ==
    [][SecondCallStepOK]_vars

\* The watch was removed and removed again, the mdns freed and freed again,
\* each first call with a done callback that is still the one recorded, and
\* the runner has yet to run.
SecondCallWitness ==
    /\ mdns.nfree = 2 /\ mdns.free_done = 1
    /\ mdns.w[1].nrm = 2 /\ mdns.w[1].remove_done = 1
    /\ mdns.run /\ mdns.at = "idle"

\* This step invokes a close_done from fd_deferred_op: the deferred runner
\* enters the up-call and the thread of the handle's events stays where it is.
CloseDoneFromDeferredOp ==
    /\ pc'["df"] = "close_cb" /\ pc["df"] # "close_cb"
    /\ pc'["ev"] = pc["ev"]

\* C22: every close_done is invoked from the deferred runner, fd_deferred_op,
\* and none on the stack of fd_cleared or of the close timer fd_close_timeout.
CloseDoneFromRunner ==
    [][CloseDoneInvoked => CloseDoneFromDeferredOp]_vars

\* This step makes the READ up-call again, from the frame of the one that
\* has just returned zero: the thread is in the up-call before and after,
\* and nothing was taken from what is offered.
ReadRepeatedInPlace ==
    \E t \in Threads :
        /\ pc[t] \in InRead /\ pc'[t] \in InRead
        /\ fdll'.read_data_len = fdll.read_data_len
        /\ h'.retried /\ ~h.retried

\* C23: when the consumer of a READ up-call takes zero bytes with read still
\* enabled, the up-call is not made again from the same frame: the delivery
\* is repeated only by the deferred runner.
ZeroTakeDeferred ==
    [][~ReadRepeatedInPlace]_vars

\* This step is a set_read_callback_enable or set_write_callback_enable that
\* changes what is enabled: nothing else writes read_enabled, write_enabled.
EnableCall ==
    \/ fdll'.read_enabled # fdll.read_enabled
    \/ fdll'.write_enabled # fdll.write_enabled

\* A read delivery or an open completion is in flight.
DeliveryInFlight == fdll.in_read \/ fdll.state = "FD_IN_OPEN"

\* This step arms or disarms a watcher of the OS-Funcs.
WatcherToggled == os'.rd # os.rd \/ os'.wr # os.wr \/ os'.ex # os.ex

\* C24: a set_read_callback_enable or set_write_callback_enable made while a
\* read delivery (in_read) or an open completion (FD_IN_OPEN) is in flight
\* only records what is enabled and toggles no watcher of the OS-Funcs; the
\* watchers follow once the routine in flight has returned.
EnableReconciledLater ==
    [][(EnableCall /\ DeliveryInFlight) => ~WatcherToggled]_vars

\* This step is an fd_close that is accepted.
CloseAccepted == h'.closeOK # h.closeOK

\* This step polls check_close with GENSIO_LL_CLOSE_STATE_DONE: fd_cleared or
\* fd_close_timeout runs on a layer whose driver has check_close.
ClosePolled ==
    /\ fdll.check_close /\ pc["ev"] = "idle"
    /\ \/ os.clr \ os'.clr # {}
       \/ os.timer /\ (~os'.timer \/ h'.polls # h.polls)

\* This step closes the handle of a layer that is closing.
ClosingHandleClosed ==
    fdll.state = "FD_IN_CLOSE" /\ h'.closes # h.closes

\* This step runs fd_deferred_op with a close-done handed over to it.
DeferredCloseRun ==
    fdll.deferred_close /\ ~fdll'.deferred_close /\ pc["df"] = "idle"

\* This step runs fd_finish_cleared from its entry: it takes a cleared report
\* or the close timer, and the timer is not started again.
ClearedFinished ==
    /\ pc["ev"] = "idle"
    /\ os.clr \ os'.clr # {} \/ os.timer
    /\ ~os'.timer /\ h'.polls = h.polls

\* This step runs fd_finish_cleared on from the open_done it has called.
ClearedResumed == pc["ev"] = "cl_open_cb" /\ pc'["ev"] # "cl_open_cb"

GracefulCloseStepOK ==
    /\ CloseAccepted =>
          (/\ fdll'.state = "FD_IN_CLOSE"
           /\ fdll.fd \notin os'.handlers
           /\ fdll.check_close => h'.ccStart
           /\ h'.closes = h.closes /\ h'.cdCalls = h.cdCalls)
    /\ ClosePolled =>
          (/\ h.ccStart /\ fdll.state = "FD_IN_CLOSE"
           /\ fdll.fd \notin os.handlers
           /\ os.timer => os.clr = {})
    /\ h'.polls # h.polls =>
          (/\ os'.timer /\ fdll'.state = "FD_IN_CLOSE"
           /\ h'.closes = h.closes /\ h'.cdCalls = h.cdCalls)
    /\ ClosingHandleClosed => (ClearedFinished /\ ~os'.timer)
    /\ CloseDoneInvoked =>
          (/\ ClearedFinished \/ ClearedResumed \/ DeferredCloseRun
           /\ ~os'.timer /\ os'.clr = {}
           /\ fdll'.fd = NoFd)

\* C25: as long as the layer is not disabled, an accepted fd_close calls
\* check_close(START) if the driver has it, makes the state FD_IN_CLOSE and
\* clears the handlers, and closes nothing and notifies nobody by itself;
\* check_close(DONE) is polled only after START, on a closing layer whose
\* cleared report has come; a poll answering GE_INPROGRESS starts the timer
\* and leaves the handle open and close_done uncalled; the handle of a
\* closing layer is closed, and close_done invoked, only by a cleared report
\* or timer whose poll did not answer GE_INPROGRESS (or by the deferred op
\* it handed the notification to), with no timer pending.
GracefulCloseOrder ==
    [][(~h.disabled /\ ~h'.disabled) => GracefulCloseStepOK]_vars

\* This step is a connect completion that succeeded: the layer waiting for
\* the connect becomes FD_OPEN.
ConnectSucceeded ==
    /\ pc["ev"] = "idle"
    /\ fdll.state = "FD_IN_OPEN" /\ fdll'.state = "FD_OPEN"

\* This step is a connect completion where check_open failed and the driver
\* has no retry_open: the layer starts to close without an fd_close.
CheckOpenFailed ==
    /\ pc["ev"] = "idle"
    /\ fdll.state = "FD_IN_OPEN" /\ fdll'.state = "FD_IN_CLOSE"
    /\ h'.nclose = h.nclose
    /\ ~fdll.retry_open

\* This step is a connect completion where check_open failed and retry_open
\* failed as well: the layer is FD_CLOSED again without an fd_disable.
RetryOpenFailed ==
    /\ pc["ev"] = "idle"
    /\ fdll.state = "FD_IN_OPEN" /\ fdll'.state = "FD_CLOSED"
    /\ h'.disabled = h.disabled

\* This step invokes the open_done of an open that failed in check_open: it
\* is recorded on a layer that no longer waits for the connect and that no
\* fd_close has been accepted on.
FailedOpenDone ==
    /\ fdll.open_done # 0 /\ fdll.close_done = 0
    /\ fdll.state # "FD_IN_OPEN"
    /\ h'.odCalls # h.odCalls

\* In FD_IN_OPEN the exception-ready handler leaves the layer, the OS and the
\* history exactly as the write-ready handler does, whatever the driver
\* answers.
ExceptSameAsWrite ==
    (fdll.state = "FD_IN_OPEN" /\ lock = "none" /\ CanStart("ev")) =>
        \A a \in OpenAnswers :
            fd_except_ready(Ctx, a[1], a[2], a[3])
                = fd_write_ready(Ctx, a[1], a[2], a[3])

ConnectStepOK ==
    /\ ConnectSucceeded =>
           (/\ h'.odCalls[fdll.open_done] = 1
            /\ h'.odErr = "OK"
            /\ fdll'.open_done = 0)
    /\ CheckOpenFailed =>
           (/\ fdll'.open_err \notin {"OK", "none"}
            /\ fdll'.open_done = fdll.open_done
            /\ h'.odCalls = h.odCalls
            /\ fdll.fd \in os'.clr)
    /\ FailedOpenDone =>
           (/\ h'.odCalls[fdll.open_done] = 1
            /\ h'.odErr = fdll.open_err /\ h'.odErr # "OK"
            /\ fdll'.state = "FD_CLOSED" /\ fdll'.fd = NoFd
            /\ fdll'.open_done = 0
            /\ h.disabled \/ h'.closes[fdll.fd] = 1)
    /\ RetryOpenFailed =>
           (/\ h'.odCalls[fdll.open_done] = 1
            /\ h'.odErr \notin {"OK", "GE_INPROGRESS"}
            /\ h'.closes[fdll.fd] = 1
            /\ fdll'.fd = NoFd /\ fdll'.open_done = 0)
    /\ (fdll'.state = "FD_OPEN" /\ fdll.state # "FD_OPEN" /\ ~OpenStep) =>
           ConnectSucceeded
    /\ OpenDoneOwedOnce'

\* C26: a write-ready or exception-ready event in FD_IN_OPEN completes the
\* connect: on success the layer becomes FD_OPEN and open_done(0) is invoked
\* in that step; when check_open fails without a retry_open, or retry_open
\* fails, the layer does not become FD_OPEN, the handle is closed, the layer
\* comes back to FD_CLOSED and open_done is invoked once with the error; the
\* exception-ready handler does in FD_IN_OPEN what the write-ready handler
\* does.
ConnectCompletion ==
    [][ConnectStepOK /\ ExceptSameAsWrite]_vars

\* A connect refused on a driver without retry_open is being reported: the
\* handle is closed, the layer is FD_CLOSED and open_done runs with the error.
ConnectFailedWitness ==
    /\ ~fdll.retry_open /\ ~h.disabled
    /\ h.openIP = {1} /\ h.odCalls[1] = 1 /\ h.odErr = "GE_CONNREFUSE"
    /\ fdll.state = "FD_CLOSED" /\ fdll.fd = NoFd
    /\ h.closes[1] = 1 /\ h.nclose = 0
    /\ pc["ev"] = "cl_open_cb"

\* This step is a connect completion where check_open failed and retry_open
\* handed out a new handle and answered GE_INPROGRESS: a handle is handed out
\* to a layer waiting for the connect, and the layer does not become FD_OPEN.
RetryInProgress ==
    /\ pc["ev"] = "idle"
    /\ fdll.state = "FD_IN_OPEN" /\ fdll.retry_open
    /\ h'.nfd = h.nfd + 1
    /\ fdll'.state # "FD_OPEN"

\* The old handle went before the new one came: it is closed and has no
\* handlers, and the layer holds the new handle.
OldHandleGone ==
    /\ h'.closes[fdll.fd] = 1
    /\ fdll.fd \notin os'.handlers
    /\ fdll'.fd = h'.nfd

\* The layer waits for the connect on the new handle.
WaitsOnNewHandle ==
    /\ fdll'.state = "FD_IN_OPEN"
    /\ fdll'.fd \in os'.handlers
    /\ fdll'.fd \in os'.wr /\ fdll'.fd \in os'.ex

\* C27: when check_open fails in FD_IN_OPEN and the driver has retry_open,
\* the old handle has its handlers cleared and is closed before retry_open is
\* invoked; when retry_open answers GE_INPROGRESS the layer stays FD_IN_OPEN
\* with handlers registered for the new handle and its write and exception
\* watchers armed.
RetryKeepsWaiting ==
    [][RetryInProgress => (OldHandleGone /\ WaitsOnNewHandle)]_vars

\* C28: in every reachable state of the layer
\* 0 <= read_data_pos <= read_data_pos + read_data_len <= read_data_size,
\* and read_data_pos is 0 whenever read_data_len is 0, whatever the OS reads
\* (up to read_data_size bytes each) and whatever the up-calls take.
ReadBufferInvariant ==
    /\ 0 <= fdll.read_data_pos
    /\ 0 <= fdll.read_data_len
    /\ fdll.read_data_pos + fdll.read_data_len <= ReadSize
    /\ fdll.read_data_len = 0 => fdll.read_data_pos = 0

\* A full buffer was read and the READ up-call took a part of it: the rest
\* starts past the beginning of the buffer and ends at its end.
ReadBufferWitness ==
    /\ fdll.read_data_pos > 0 /\ fdll.read_data_len > 0
    /\ fdll.read_data_pos + fdll.read_data_len = ReadSize
    /\ Len(h.consumed) = fdll.read_data_pos

\* This step is an fd_disable.
DisableCall == ~h.disabled /\ h'.disabled

\* What fd_disable leaves: the layer FD_CLOSED without a handle, the handle it
\* held closed and without handlers or watchers.
DisabledAtOnce ==
    /\ fdll'.state = "FD_CLOSED" /\ fdll'.fd = NoFd
    /\ fdll.fd \in FDs => h'.closes[fdll.fd] = 1
    /\ fdll.fd \notin os'.handlers
    /\ fdll.fd \notin (os'.rd \cup os'.wr \cup os'.ex)

\* What fd_disable does not do: no cleared report is asked for, check_close
\* is called neither with START nor with DONE, and no close timer is started.
DisabledNotGraceful ==
    /\ os'.clr = os.clr
    /\ h'.ccStart = h.ccStart /\ h'.polls = h.polls
    /\ os'.timer = os.timer
    /\ h'.odCalls = h.odCalls /\ h'.cdCalls = h.cdCalls
    /\ pc' = pc

\* C29: fd_disable is immediate and not graceful: when it returns the layer
\* is FD_CLOSED, the handle is closed and fd is -1, the handlers are cleared
\* without a cleared report, check_close has not been called and no close
\* timer has been started.
DisableImmediate ==
    [][DisableCall => (DisabledAtOnce /\ DisabledNotGraceful)]_vars

\* An open layer on a driver with check_close was disabled: closed at once,
\* with nothing of a graceful close under way.
DisableWitness ==
    /\ h.disabled /\ fdll.check_close
    /\ fdll.state = "FD_CLOSED" /\ fdll.fd = NoFd
    /\ h.closes[1] = 1 /\ h.nclose = 0
    /\ os.handlers = {} /\ os.clr = {} /\ ~os.timer
    /\ ~h.ccStart /\ h.polls = 0

\* This WRITE_READY left the ordinary handling alone: the peer's read and the
\* endpoint's write callbacks are as they were, and what went to the gensio
\* are bytes of the head record under the aux tag "oob".
OnlyHeadServiced ==
    /\ ioinfo'.other_rd_enabled = ioinfo.other_rd_enabled
    /\ ioinfo'.wr_enabled = ioinfo.wr_enabled
    /\ \A k \in (Len(ioinfo.wire) + 1)..Len(ioinfo'.wire) :
           /\ ioinfo'.wire[k][1] = "oob"
           /\ ioinfo'.wire[k][2] = ioinfo.oob_head
    /\ \A r \in OobIds \ {ioinfo.oob_head} :
           /\ ioinfo'.len[r] = ioinfo.len[r]
           /\ ioinfo'.buf[r] = ioinfo.buf[r]
    /\ ioinfo'.oob_head \in {ioinfo.oob_head, ioinfo.next[ioinfo.oob_head]}

\* This WRITE_READY did the ordinary handling: the peer's read is on, the
\* endpoint's write callbacks are off, nothing was written.
OrdinaryHandling ==
    /\ ioinfo'.other_rd_enabled /\ ~ioinfo'.wr_enabled
    /\ ioinfo'.wire = ioinfo.wire

\* This step is an ioinfo_sendoob.
SendOobCall == ioinfo'.nsent = ioinfo.nsent + 1

OobWriteReadyStepOK ==
    /\ (OobWriteReady /\ ioinfo.oob_head # NoOob) => OnlyHeadServiced
    /\ (OobWriteReady /\ ioinfo.oob_head = NoOob) => OrdinaryHandling
    /\ SendOobCall => (ioinfo'.wr_enabled /\ ioinfo'.oob_tail = ioinfo'.nsent)
    /\ ioinfo'.oob_head # NoOob => ioinfo'.wr_enabled
    /\ (ioinfo.oob_head # NoOob /\ ioinfo'.oob_head = NoOob) =>
           ioinfo'.wr_enabled

\* C30: while the OOB queue is not empty a WRITE_READY only services the
\* queue head: it neither turns the peer's read on nor the endpoint's write
\* callbacks off; with the queue empty a WRITE_READY does the ordinary
\* handling; the write callbacks are on whenever a record is queued and stay
\* on when the queue drains, so the next WRITE_READY is the ordinary one, and
\* ioinfo_sendoob always turns them on.
OobBeforeOrdinary ==
    [][OobWriteReadyStepOK]_vars

\* Records were sent and the queue has drained, and a WRITE_READY after that
\* did the ordinary handling: write callbacks are off again, the peer reads.
OobDrainedWitness ==
    /\ ioinfo.nsent > 0 /\ ioinfo.oob_head = NoOob
    /\ ioinfo.at = "idle" /\ ~ioinfo.shut
    /\ ~ioinfo.wr_enabled /\ ioinfo.other_rd_enabled
    /\ \E k \in 1..Len(ioinfo.wire) : ioinfo.wire[k][1] = "oob"

\* This step confirmed a stop that an update asked for, or is an update
\* that needed none: no stop is outstanding after it.
StopConfirmed ==
    /\ avahi'.t.mem = "live" /\ ~avahi'.t.freed /\ ~avahi'.t.in_update
    /\ avahi.t.in_update \/ avahi'.op \in {"update", "update_null"}

\* The OS timer runs just when the last update supplied a time, and with
\* that time.
TimerAsLastUpdate ==
    /\ avahi'.t.tm = "running" <=> avahi'.t.lu = "time"
    /\ avahi'.t.tm = "running" => avahi'.t.at = avahi'.t.tv

TimeoutStepOK ==
    /\ ~avahi'.stopBusy /\ ~avahi'.startBusy
    /\ (avahi'.t.mem = "live" /\ ~avahi'.t.freed) =>
           (avahi'.t.in_update <=> avahi'.t.tm = "stopping")
    /\ StopConfirmed => TimerAsLastUpdate
    /\ (avahi'.t.mem = "live" /\ ~avahi'.t.in_update
          /\ avahi'.t.tm = "running") =>
           (avahi'.t.lu = "time" /\ avahi'.t.at = avahi'.t.tv)
    /\ avahi'.cb = "timeout" => avahi.t.lu = "time"

\* C31: whatever gensio_avahi_timeout_update calls are made, no stop is
\* asked for while one is outstanding (in_update holds just while the stop
\* is outstanding), the timer is never started while it runs or is being
\* stopped, once the stop is confirmed (by GE_TIMEDOUT or by the done
\* callback) the timer runs if and only if the last update supplied a time,
\* and then with that time, and the timeout callback of Avahi is not invoked
\* when the last update supplied no time.
TimeoutRestart ==
    [][TimeoutStepOK]_vars

\* An update supplied a new time while the timer ran with another one: the
\* stop is outstanding and the timer is still armed with the old time.
TimeoutRestartWitness ==
    /\ avahi.t.mem = "live" /\ ~avahi.t.freed
    /\ avahi.t.in_update /\ avahi.t.tm = "stopping"
    /\ avahi.t.lu = "time" /\ avahi.t.at # 0 /\ avahi.t.tv # avahi.t.at

\* C32: whenever the layer is FD_OPEN on a valid handle, the OS-Funcs hold
\* the layer's event handlers for that handle, on every path into FD_OPEN,
\* the one through retry_open answering success included.
HandlersRegistered ==
    (fdll.state = "FD_OPEN" /\ fdll.fd # NoFd) => fdll.fd \in os.handlers

\* Every byte the layer would offer was read on the handle it has now.
FromHandle(ll) ==
    \A i \in 1..ll.read_data_len : Offered(ll)[i] \div 10 = ll.fd

\* C33: bytes left in the read buffer when a close completes or the layer is
\* disabled are not delivered in a later open session: a READ up-call that
\* starts while the layer has a handle offers only bytes read on that handle.
NoStaleRead ==
    [][\A t \in Threads :
          (pc'[t] = "cb" /\ pc[t] # "cb" /\ fdll'.fd \in FDs)
             => FromHandle(fdll')]_vars

\* The layer is open, holds bytes the upper layer has not taken, and read is
\* enabled.
Buffered ==
    fdll.state = "FD_OPEN" /\ fdll.read_data_len > 0 /\ fdll.read_enabled

\* C34: buffered read data is offered again: from a state where the layer is
\* open with unconsumed bytes and read enabled, a READ up-call offering them
\* follows, unless read is disabled or the layer leaves FD_OPEN first, with
\* no event of the handle needed, however set_read_callback_enable calls of
\* another thread fall into a delivery in flight.
BufferedReoffered ==
    Buffered ~> ((\E t \in Threads : pc[t] = "cb") \/ ~Buffered)

\* C35: while an open is in progress the write watcher that detects the
\* completion of the connect stays armed, whatever set_write_callback_enable
\* calls the upper layer makes meanwhile.
WriteArmedInOpen ==
    fdll.state = "FD_IN_OPEN" => (fdll.fd \in os.handlers /\ fdll.fd \in os.wr)

\* The reader's read callbacks are off while this endpoint is up.
ReadHeldOff == ~ioinfo.shut /\ ~ioinfo.other_rd_enabled

\* What the reader was told it had consumed is what this endpoint's gensio
\* accepted, and a reader that is held off has something to wake it: this
\* endpoint's write callbacks, or its gensio still to be attached.
HeldOffCanWake ==
    /\ ioinfo.taken = ioinfo.nnormal
    /\ ReadHeldOff => (ioinfo.wr_enabled \/ ~ioinfo.ready)

\* The reader is turned on again by ioinfo_set_ready or by a WRITE_READY
\* that finds the OOB queue empty, and such a WRITE_READY always does so.
WakeStepOK ==
    /\ (ioinfo'.other_rd_enabled /\ ~ioinfo.other_rd_enabled)
          => \/ ~ioinfo.ready /\ ioinfo'.ready
             \/ /\ ioinfo.oob_head = NoOob
                /\ ioinfo.wr_enabled /\ ~ioinfo'.wr_enabled
    /\ (OobWriteReady /\ ioinfo.oob_head = NoOob)
          => ioinfo'.other_rd_enabled

\* C36: back-pressure between the bridged endpoints does not stall: when a
\* READ turns the reader off because this endpoint took fewer bytes than
\* offered or was not ready, the bytes reported consumed are the bytes
\* taken, and the reader is turned on again by the next WRITE_READY that
\* finds the OOB queue empty or by ioinfo_set_ready, given that the gensio
\* goes on reporting write-ready.
BackPressure ==
    /\ []HeldOffCanWake
    /\ [][WakeStepOK]_vars
    /\ ReadHeldOff ~> ~ReadHeldOff

\* The reader is held off after a short write of forwarded data, behind an
\* OOB record that still waits to be sent.
BackPressureWitness ==
    /\ ReadHeldOff /\ ioinfo.ready /\ ioinfo.wr_enabled
    /\ ioinfo.taken > 0 /\ ioinfo.taken < MaxNormal
    /\ ioinfo.oob_head # NoOob

\* C37: after a gensio_free_mdns that was accepted the reference count
\* reaches zero and the structure is released with free_done called once,
\* whatever was queued in the callback list or pending at the time of the
\* free (a run that ends in a failed assert or a use of freed memory aside).
FreeCompletes ==
    /\ [](mdns.fdCalls <= 1)
    /\ mdns.freed ~> \/ mdns.gone /\ (mdns.free_done # 0 => mdns.fdCalls = 1)
                     \/ mdns.uaf \/ mdns.assertFail \/ mdns.listErr

\* C38: a watch that gensio_mdns_add_watch accepted is in the list of
\* watches until it is removed, also when it was added before the client
\* reached RUNNING, and has its service-type browser once the client is
\* RUNNING.
EarlyWatchStarted ==
    \A x \in Watches :
       (mdns.w[x].mem = "live" /\ ~mdns.w[x].removed)
          => /\ mdns.w[x].listed
             /\ mdns.running => mdns.w[x].browser

\* This step starts a data or all-for-now callback of watch x.
WatchCbStarts(x) ==
    /\ mdns'.at \in {"watch_cb", "afn_cb"} /\ mdns.at = "idle"
    /\ mdns'.cur[2] = x

\* C39: for a watch removed with gensio_mdns_remove_watch, remove_done is
\* called once, from the runner with the lock released, the watch is freed
\* only after it, and no data or all-for-now callback of the watch starts
\* once the removal has been accepted.
WatchRemoval ==
    /\ [](\A x \in Watches :
             /\ mdns.w[x].rdCalls <= 1
             /\ (mdns.w[x].mem = "freed" /\ mdns.w[x].remove_done # 0)
                   => mdns.w[x].rdCalls = 1)
    /\ [][\A x \in Watches : WatchCbStarts(x) => ~mdns.w[x].removed]_vars

\* The timeout holds its reference on the poll: it is in use, or freed with
\* the stop of its timer still to be confirmed.
TimeoutHoldsRef ==
    avahi.t.mem = "live" /\ (~avahi.t.freed \/ avahi.t.tm = "stopping")

\* The count is one for the owner until poll_free, one for each watch until
\* its handlers are reported cleared, one for each timeout until its timer is
\* known to be stopped.
PollRefcount ==
    ~avahi.gone =>
       avahi.refcount = (IF avahi.stopped THEN 0 ELSE 1)
                        + (IF avahi.w.mem = "live" THEN 1 ELSE 0)
                        + (IF TimeoutHoldsRef THEN 1 ELSE 0)

PollStepOK ==
    /\ ~avahi'.uaf
    /\ avahi'.sdCalls <= 1
    /\ (avahi'.gone /\ ~avahi.gone)
          => /\ avahi.stopped /\ avahi.refcount = 0
             /\ avahi'.cb = "stop_done" /\ avahi'.sdCalls = 1
             /\ avahi.w.mem # "live" /\ ~avahi.w.handlers /\ ~avahi.w.clr
             /\ ~TimeoutHoldsRef /\ avahi.t.tm = "idle" /\ ~avahi.t.hp
    /\ avahi'.cb = "stop_done" => ~avahi.gone
    /\ (avahi'.npf # avahi.npf /\ avahi.stopped)
          => avahi' = [avahi EXCEPT !.npf = avahi'.npf, !.op = "poll_free",
                                    !.cb = "none"]
    /\ avahi'.cb = "watch" => ~avahi.w.freed
    /\ avahi'.cb = "timeout" => ~avahi.t.freed

\* C40: stop_done of the poll is called once, after gensio_avahi_poll_free
\* and only when every watch has had its handlers cleared and every timeout
\* is known to be stopped, the count being one for the owner and one for
\* each of them; a second gensio_avahi_poll_free changes nothing; no watch
\* or timeout callback is made after watch_free or timeout_free.
PollStop == []PollRefcount /\ [][PollStepOK]_vars

\* The poll has gone with stop_done called, after two poll_free calls, a
\* watch freed and a timeout freed.
PollStopWitness ==
    /\ avahi.gone /\ avahi.sdCalls = 1 /\ avahi.npf = 2
    /\ avahi.w.mem = "freed" /\ avahi.t.mem # "none" /\ avahi.t.freed

====
